---- MODULE Spec2Model ----
(***************************************************************************)
(* Verification model of the DJAI automatic mixing engine.                 *)
(*                                                                         *)
(*  - the planner (src/src/upload-routes.js, src/src/audio-analyzer.js):   *)
(*    calculateMixOrder, generateTransitionPoints, generateMix, checked    *)
(*    under PlanSpec, whose Init draws the analysed tracks from bounded    *)
(*    sets;                                                                *)
(*  - the playback engine (class AudioMixer, src/unnamed/part_002),        *)
(*    checked under Spec: its fields, the audio elements and Web Audio     *)
(*    parameters it drives, the timers it has scheduled; under FailSpec    *)
(*    with every stream failing, under SessionSpec across several mixes,   *)
(*    under LiveSpec left to itself with fairness;                         *)
(*  - the pure functions of audio-analyzer.js, under AnalyzerSpec;         *)
(*  - the routes POST /generate-mix (RouteSpec) and POST /save-mix         *)
(*    (SaveSpec);                                                          *)
(*  - the generation queue of LyricsBufferService (src/src/index.js),      *)
(*    under LyricsSpec with fairness.                                      *)
(***************************************************************************)
EXTENDS Integers, Sequences, FiniteSets, TLC

(***************************************************************************)
(* Bounds of the model.                                                    *)
(***************************************************************************)
MaxTracks == 3          \* analysed tracks handed to one planning run
MaxUserOps == 4         \* budget of one run of the playback engine: a click on
                        \* play/pause, next, previous or the progress bar
                        \* takes 1 of it,
ManualCost == 2         \* a manual control (EQ, tempo, beatmatch) takes this,
FaultCost == 2          \* and so does a stream that keeps failing or stalls
MaxBroken == 1          \* tracks whose stream keeps failing in one run
TrackLen == 2           \* playback positions of a track of the playback engine
LongTracks == 4         \* analysed tracks of a longer planning run, drawn from
                        \* fewer shapes
CatalogSize == 4        \* SoundCloud tracks a request of the route can name

(***************************************************************************)
(* Program constants.                                                      *)
(***************************************************************************)
DefaultBpm == 120               \* a.bpm || 120
DefaultDuration == 180000       \* currentTrack.duration || 180000
NaN == -1                       \* JavaScript NaN (Math.floor(undefined * 0.8)):
                                \* every comparison with it is false

VARIABLES
  input,        \* planner: the analysed tracks (analyzedTracks)
  order,        \* planner: orderedTracks of generateMix (<<>> before it ran)
  mix,          \* planner: what generateMix returned (NoMix before it ran)
  mTracks,            \* this.tracks
  mTransitions,       \* this.transitions
  currentTrackIndex,  \* this.currentTrackIndex
  isPlaying,          \* this.isPlaying
  isCrossfading,      \* this.isCrossfading
  beatmatchingEnabled,\* this.beatmatchingEnabled
  audio,              \* this.audioElements: per index [st, pos, rate, load]
  gain,               \* this.gainNodes[i].gain: an AudioParam per index
  eq,                 \* this.filters: [low, mid, high], an AudioParam each, per index
  tempoAdjustments,   \* this.tempoAdjustments, in thousandths
  retries,            \* audioLoadRetries of each track's closure
  timers,             \* the pending setTimeout / setInterval callbacks, oldest first
  broken,             \* environment: the indexes whose stream keeps failing
  ops,                \* the budget used so far (bounded by MaxUserOps)
  lastOp,             \* history: the operation of the last step
  probe,        \* analyzer: the arguments of one call of a function of
                \* audio-analyzer.js (NoProbe when none is made)
  verdict,      \* analyzer: what the call returned ("none" before it)
  rated,        \* analyzer: the BPM difference and its rating for a pair of
                \* BPMs, taken in both orders (NoTempo before it)
  account,      \* save-mix: the user's row, the user's SavedMix rows and the
                \* POST /save-mix requests in progress (NoAccount when none
                \* is looked at)
  lyrics        \* LyricsBufferService: the buffer of one track with its
                \* generation queue (NoLyrics when none is looked at)

planVars == <<input, order, mix>>
mixerVars == <<mTracks, mTransitions, currentTrackIndex, isPlaying, isCrossfading,
               beatmatchingEnabled, audio, gain, eq, tempoAdjustments, retries,
               timers, broken, ops, lastOp>>
probeVars == <<probe, verdict, rated>>
serviceVars == <<account, lyrics>>
vars == <<planVars, mixerVars, probeVars, serviceVars>>

\* no user account is looked at
NoAccount == [isPremium |-> FALSE, rows |-> 0, mixCount |-> 0, requests |-> <<>>]

\* no lyrics buffer is looked at
NoLyrics ==
  [buffered |-> FALSE, segments |-> <<>>, currentSegment |-> 0, generationQueue |-> <<>>,
   isProcessingQueue |-> FALSE, generating |-> {}]

\* the server's services are not part of the run
ServicesIdle == account = NoAccount /\ lyrics = NoLyrics

(***************************************************************************)
(* JavaScript helpers.                                                     *)
(***************************************************************************)
Abs(x) == IF x < 0 THEN -x ELSE x
Min(a, b) == IF a <= b THEN a ELSE b
Max(a, b) == IF a >= b THEN a ELSE b

\* Array.prototype.sort with a numeric comparator (a, b) => key(a) - key(b):
\* the sort is stable, so equal keys keep their input order.  Insert places
\* index i behind every index whose key is <= keys[i].
RECURSIVE Insert(_, _, _)
Insert(p, i, keys) ==
  IF p = <<>> THEN <<i>>
  ELSE IF keys[Head(p)] <= keys[i]
       THEN <<Head(p)>> \o Insert(Tail(p), i, keys)
       ELSE <<i>> \o p

RECURSIVE SortIdx(_, _)
SortIdx(keys, n) ==
  IF n = 0 THEN <<>> ELSE Insert(SortIdx(keys, n - 1), n, keys)

StableSort(s, keys) ==
  LET p == SortIdx(keys, Len(s)) IN [k \in 1..Len(s) |-> s[p[k]]]

\* Array.prototype.splice(i, 1)
RemoveAt(s, i) == [k \in 1..(Len(s) - 1) |-> IF k < i THEN s[k] ELSE s[k + 1]]

(***************************************************************************)
(* Tracks.  A missing number (undefined, and 0, which is falsy too) is 0;  *)
(* adv is track.advancedAnalysis: present = FALSE is null; rhythm = FALSE  *)
(* is the rhythm object {} left when Essentia is unavailable; with rhythm, *)
(* beats is an array of nbeats positions, beat i (from 0) at i * period.   *)
(* energy is the list of (low + mid + high) band sums, in tenths.          *)
(***************************************************************************)
NoAdv ==
  [present |-> FALSE, rhythm |-> FALSE, rbpm |-> 0, key |-> "", scale |-> "",
   nbeats |-> 0, period |-> 0, energy |-> <<>>]

EmptyRhythm ==
  [present |-> TRUE, rhythm |-> FALSE, rbpm |-> 0, key |-> "", scale |-> "",
   nbeats |-> 0, period |-> 0, energy |-> <<>>]

Rhythm(b, k, s, n, e) ==
  [present |-> TRUE, rhythm |-> TRUE, rbpm |-> b, key |-> k, scale |-> s,
   nbeats |-> n, period |-> 500, energy |-> e]

BeatAt(adv, i) == i * adv.period

(***************************************************************************)
(* Mix Order Planner: calculateMixOrder and its three orderings.           *)
(***************************************************************************)
RECURSIVE SumSeq(_)
SumSeq(s) == IF s = <<>> THEN 0 ELSE Head(s) + SumSeq(Tail(s))

\* mutation of BpmOrDefault: a missing BPM is not replaced by 120
BpmWithoutDefault(t) == t.bpm

\* track.bpm || 120
BpmOrDefault(t) == IF t.bpm = 0 THEN DefaultBpm ELSE t.bpm

BpmBucket(bpm) ==
  IF bpm < 80 THEN 2
  ELSE IF bpm < 100 THEN 4
  ELSE IF bpm < 120 THEN 6
  ELSE IF bpm < 140 THEN 8
  ELSE 10

\* estimateTrackEnergy is applied to the track as analysed, before its BPM
\* is defaulted: a track without BPM gets the default energy level.
estimateTrackEnergy(t) ==
  IF t.adv.present /\ t.adv.rhythm /\ Len(t.adv.energy) > 0
  THEN Max(1, Min(10, SumSeq(t.adv.energy) \div (3 * Len(t.adv.energy))))
  ELSE IF t.bpm # 0 THEN BpmBucket(t.bpm)
  ELSE 5

\* the scoring copy of a track made by calculateMixOrder
ScoredTrack(t) ==
  [id |-> t.id, bpm |-> BpmOrDefault(t), duration |-> t.duration, adv |-> t.adv,
   energy |-> estimateTrackEnergy(t),
   key |-> IF t.adv.present /\ t.adv.rhythm /\ t.adv.key # "" THEN t.adv.key ELSE "C",
   scale |-> IF t.adv.present /\ t.adv.rhythm /\ t.adv.scale # ""
             THEN t.adv.scale ELSE "major"]

\* the track object as the mix carries it
PlainTrack(t) == [id |-> t.id, bpm |-> t.bpm, duration |-> t.duration, adv |-> t.adv]

\* up and down are upIndex + 1 and downIndex + 1 of the code
RECURSIVE EnergyLoop(_, _, _, _, _)
EnergyLoop(sorted, result, up, down, goingUp) ==
  IF Len(result) >= Len(sorted) THEN result
  ELSE
    LET n == Len(sorted)
        step ==
          IF goingUp /\ up <= n
          THEN [r |-> Append(result, sorted[up]), u |-> up + 1, d |-> down]
          ELSE IF down >= 1
          THEN [r |-> Append(result, sorted[down]), u |-> up, d |-> down - 1]
          ELSE IF up <= n
          THEN [r |-> Append(result, sorted[up]), u |-> up + 1, d |-> down]
          ELSE [r |-> result, u |-> up, d |-> down]
        g == IF goingUp /\ 10 * Len(step.r) > 7 * n THEN FALSE ELSE goingUp
    IN EnergyLoop(sorted, step.r, step.u, step.d, g)

createEnergyCurve(tracks) ==
  LET sortedByEnergy == StableSort(tracks, [k \in 1..Len(tracks) |-> tracks[k].energy])
      midpoint == Len(tracks) \div 2
  IN EnergyLoop(sortedByEnergy, <<sortedByEnergy[midpoint + 1]>>,
                midpoint + 2, midpoint, TRUE)

\* first index of `remaining` with the smallest BPM distance to `last`
ClosestBpm(remaining, last) ==
  CHOOSE i \in 1..Len(remaining) :
    \A j \in 1..Len(remaining) :
      /\ Abs(remaining[i].bpm - last.bpm) <= Abs(remaining[j].bpm - last.bpm)
      /\ j < i => Abs(remaining[j].bpm - last.bpm) > Abs(remaining[i].bpm - last.bpm)

RECURSIVE BpmLoop(_, _)
BpmLoop(result, remaining) ==
  IF remaining = <<>> THEN result
  ELSE LET best == ClosestBpm(remaining, result[Len(result)])
       IN BpmLoop(Append(result, remaining[best]), RemoveAt(remaining, best))

minimizeBpmJumps(tracks) ==
  LET sortedByBpm == StableSort(tracks, [k \in 1..Len(tracks) |-> tracks[k].bpm])
  IN BpmLoop(<<sortedByBpm[1]>>, Tail(sortedByBpm))

\* camelotWheel of scoreKeyCompatibility; 0 is a key the wheel does not hold
WheelPos(key, mode) ==
  IF mode = "major" THEN
    CASE key = "C" -> 8 [] key = "G" -> 9 [] key = "D" -> 10 [] key = "A" -> 11
      [] key = "E" -> 12 [] key = "B" -> 1 [] key = "F#" -> 2 [] key = "C#" -> 3
      [] key = "G#" -> 4 [] key = "D#" -> 5 [] key = "A#" -> 6 [] key = "F" -> 7
      [] key = "Db" -> 3 [] key = "Eb" -> 5 [] key = "Gb" -> 2 [] key = "Ab" -> 4
      [] key = "Bb" -> 6 [] OTHER -> 0
  ELSE
    CASE key = "A" -> 8 [] key = "E" -> 9 [] key = "B" -> 10 [] key = "F#" -> 11
      [] key = "C#" -> 12 [] key = "G#" -> 1 [] key = "D#" -> 2 [] key = "A#" -> 3
      [] key = "F" -> 4 [] key = "C" -> 5 [] key = "G" -> 6 [] key = "D" -> 7
      [] key = "Bb" -> 3 [] key = "Eb" -> 2 [] key = "Ab" -> 1 [] key = "Db" -> 4
      [] key = "Gb" -> 11 [] OTHER -> 0

\* scale.toLowerCase() === 'minor' ? 'minor' : 'major'
ModeOf(scale) == IF scale = "minor" THEN "minor" ELSE "major"

scoreKeyCompatibility(key1, scale1, key2, scale2) ==
  IF key1 = key2 /\ scale1 = scale2 THEN 10
  ELSE
    LET mode1 == ModeOf(scale1)
        mode2 == ModeOf(scale2)
        key1Pos == WheelPos(key1, mode1)
        key2Pos == WheelPos(key2, mode2)
        d == Abs(key1Pos - key2Pos)
        distance == IF d > 6 THEN 12 - d ELSE d
    IN IF key1Pos = 0 \/ key2Pos = 0 THEN 5
       ELSE IF distance = 1 THEN 9
       ELSE IF distance = 3 /\ mode1 # mode2 THEN 9
       ELSE IF distance = 7 THEN 8
       ELSE IF mode1 = mode2 THEN 10 - distance
       ELSE 6 - distance

\* 5 * (keyMatch * 2 + bpmScore), bpmScore = 10 - min(10, bpmDiff / 5)
HarmonicScore5(last, t) ==
  scoreKeyCompatibility(last.key, last.scale, t.key, t.scale) * 10
    + 50 - Min(50, Abs(t.bpm - last.bpm))

\* first index of `remaining` with the highest score (bestScore starts at -1)
BestHarmonic(remaining, last) ==
  CHOOSE i \in 1..Len(remaining) :
    \A j \in 1..Len(remaining) :
      /\ HarmonicScore5(last, remaining[i]) >= HarmonicScore5(last, remaining[j])
      /\ j < i => HarmonicScore5(last, remaining[j]) < HarmonicScore5(last, remaining[i])

RECURSIVE HarmonicLoop(_, _)
HarmonicLoop(result, remaining) ==
  IF remaining = <<>> THEN result
  ELSE LET best == BestHarmonic(remaining, result[Len(result)])
       IN HarmonicLoop(Append(result, remaining[best]), RemoveAt(remaining, best))

harmonicMixing(tracks) ==
  LET tracksWithKeys == SelectSeq(tracks, LAMBDA t : t.key # "" /\ t.scale # "")
      missingTracks == SelectSeq(tracks, LAMBDA t : t.key = "" \/ t.scale = "")
  IN IF 2 * Len(tracksWithKeys) < Len(tracks) THEN tracks
     ELSE HarmonicLoop(<<tracksWithKeys[1]>>, Tail(tracksWithKeys)) \o missingTracks

\* scores[track.id][position] after the three votes
VoteAt(ordered, id, pos, weight) ==
  IF pos <= Len(ordered) /\ ordered[pos].id = id THEN weight ELSE 0

\* mutation of PositionScore: the weights of the energy-arc and of the
\* tempo-greedy vote are exchanged
PositionScoreEnergyFirst(t, pos, energyOrdered, bpmOrdered, harmonicOrdered, hasAdvancedAnalysis) ==
  VoteAt(energyOrdered, t.id, pos, 10) + VoteAt(bpmOrdered, t.id, pos, 5)
    + (IF hasAdvancedAnalysis THEN VoteAt(harmonicOrdered, t.id, pos, 8) ELSE 0)

PositionScore(t, pos, energyOrdered, bpmOrdered, harmonicOrdered, hasAdvancedAnalysis) ==
  VoteAt(energyOrdered, t.id, pos, 5) + VoteAt(bpmOrdered, t.id, pos, 10)
    + (IF hasAdvancedAnalysis THEN VoteAt(harmonicOrdered, t.id, pos, 8) ELSE 0)

UsedIds(result) == {result[k].id : k \in 1..Len(result)}

\* mutation of PlaceLoop: usedTracks is not consulted
RECURSIVE PlaceLoopReusing(_, _, _, _, _, _, _)
PlaceLoopReusing(tracks, eo, bo, ho, hasAdv, position, result) ==
  IF position > Len(tracks) THEN result
  ELSE
    LET free == 1..Len(tracks)
        sc(k) == PositionScore(tracks[k], position, eo, bo, ho, hasAdv)
        win == {k \in free : /\ sc(k) > -1
                             /\ \A j \in free : sc(j) <= sc(k)
                             /\ \A j \in free : j < k => sc(j) < sc(k)}
    IN IF win = {} THEN PlaceLoopReusing(tracks, eo, bo, ho, hasAdv, position + 1, result)
       ELSE PlaceLoopReusing(tracks, eo, bo, ho, hasAdv, position + 1,
                             Append(result, tracks[CHOOSE k \in win : TRUE]))

\* the greedy placement loop: position runs over 1..n, bestScore starts at -1
RECURSIVE PlaceLoop(_, _, _, _, _, _, _)
PlaceLoop(tracks, eo, bo, ho, hasAdv, position, result) ==
  IF position > Len(tracks) THEN result
  ELSE
    LET free == {k \in 1..Len(tracks) : tracks[k].id \notin UsedIds(result)}
        sc(k) == PositionScore(tracks[k], position, eo, bo, ho, hasAdv)
        win == {k \in free : /\ sc(k) > -1
                             /\ \A j \in free : sc(j) <= sc(k)
                             /\ \A j \in free : j < k => sc(j) < sc(k)}
    IN IF win = {} THEN PlaceLoop(tracks, eo, bo, ho, hasAdv, position + 1, result)
       ELSE PlaceLoop(tracks, eo, bo, ho, hasAdv, position + 1,
                      Append(result, tracks[CHOOSE k \in win : TRUE]))

calculateMixOrder(analyzedTracks) ==
  IF Len(analyzedTracks) < 3
  THEN StableSort(analyzedTracks,
                  [k \in 1..Len(analyzedTracks) |-> BpmOrDefault(analyzedTracks[k])])
  ELSE
    LET hasAdvancedAnalysis == \E k \in 1..Len(analyzedTracks) : analyzedTracks[k].adv.present
        tracks == [k \in 1..Len(analyzedTracks) |-> ScoredTrack(analyzedTracks[k])]
        energyOrdered == createEnergyCurve(tracks)
        bpmOrdered == minimizeBpmJumps(tracks)
        harmonicOrdered == IF hasAdvancedAnalysis THEN harmonicMixing(tracks) ELSE tracks
        placed == PlaceLoop(tracks, energyOrdered, bpmOrdered, harmonicOrdered,
                            hasAdvancedAnalysis, 1, <<>>)
        rest == SelectSeq(tracks, LAMBDA t : t.id \notin UsedIds(placed))
        result == placed \o rest
    IN [k \in 1..Len(result) |-> PlainTrack(result[k])]

(***************************************************************************)
(* Transition Planner: findBestTransition (audio-analyzer.js) and          *)
(* generateTransitionPoints, generateMix (upload-routes.js).               *)
(***************************************************************************)
\* keyToCamelot: the hour of the Camelot code, 0 when the map has no entry
\* (null); the letter is A for minor and B for major.  The map is keyed by
\* `${key} ${scale.toLowerCase()}`, so a scale other than major/minor has no
\* entry.
CamelotHour(key, scale) ==
  IF scale \in {"major", "minor"} THEN WheelPos(key, scale) ELSE 0

CamelotLetter(scale) == IF scale = "minor" THEN "A" ELSE "B"

\* analyzeKeyCompatibility.  relativeHour is declared const, so the statement
\* `if (relativeHour === 0) relativeHour = 12` raises a TypeError whenever it
\* assigns: the result is then "throw".
analyzeKeyCompatibility(sourceKey, sourceScale, targetKey, targetScale) ==
  LET sourceHour == CamelotHour(sourceKey, sourceScale)
      targetHour == CamelotHour(targetKey, targetScale)
      sourceMode == CamelotLetter(sourceScale)
      targetMode == CamelotLetter(targetScale)
      relativeHour == IF sourceMode = "A" THEN (sourceHour + 3) % 12
                      ELSE (sourceHour - 3 + 12) % 12
  IN IF sourceHour = 0 \/ targetHour = 0 THEN "unknown"
     ELSE IF sourceHour = targetHour /\ sourceMode = targetMode THEN "perfect"
     ELSE IF /\ sourceMode = targetMode
             /\ \/ sourceHour = (targetHour % 12) + 1
                \/ targetHour = (sourceHour % 12) + 1
          THEN "compatible"
     ELSE IF sourceMode # targetMode /\ relativeHour = 0 THEN "throw"
     ELSE IF sourceMode # targetMode /\ relativeHour = targetHour THEN "compatible"
     ELSE IF /\ sourceMode = targetMode
             /\ \/ sourceHour = (targetHour + 7) % 12
                \/ targetHour = (sourceHour + 7) % 12
          THEN "compatible"
     ELSE IF Abs(sourceHour - targetHour) = 6 THEN "clash"
     ELSE "moderate"

\* mutation of determineTransitionType: the harmonic row is tried before the
\* second beatmatch row
determineTransitionTypeHarmonicFirst(bpmCompatibility, keyCompatibility) ==
  IF bpmCompatibility = "good" /\ keyCompatibility = "perfect" THEN "beatmatch_blend"
  ELSE IF keyCompatibility \in {"perfect", "compatible"} THEN "harmonic_fade"
  ELSE IF bpmCompatibility = "good" THEN "beatmatch_fade"
  ELSE IF bpmCompatibility = "moderate" /\ keyCompatibility # "clash" THEN "tempo_adjust"
  ELSE "cut_eq"

determineTransitionType(bpmCompatibility, keyCompatibility) ==
  IF bpmCompatibility = "good" /\ keyCompatibility = "perfect" THEN "beatmatch_blend"
  ELSE IF bpmCompatibility = "good" THEN "beatmatch_fade"
  ELSE IF keyCompatibility \in {"perfect", "compatible"} THEN "harmonic_fade"
  ELSE IF bpmCompatibility = "moderate" /\ keyCompatibility # "clash" THEN "tempo_adjust"
  ELSE "cut_eq"

\* mutation of BpmCompatibility: the difference is rated with its sign
BpmCompatibilitySigned(bpmDifference) ==
  IF bpmDifference < 10 THEN "good"
  ELSE IF bpmDifference < 20 THEN "moderate"
  ELSE "challenging"

\* targetTrack.rhythm.bpm - sourceTrack.rhythm.bpm
BpmDifference(sourceBpm, targetBpm) == targetBpm - sourceBpm

BpmCompatibility(bpmDifference) ==
  IF Abs(bpmDifference) < 10 THEN "good"
  ELSE IF Abs(bpmDifference) < 20 THEN "moderate"
  ELSE "challenging"

\* the first index i >= floor(beats.length * 0.66) with i % 16 = 0, if any
PhraseIndexes(adv) ==
  {i \in ((adv.nbeats * 66) \div 100)..(adv.nbeats - 1) : i % 16 = 0}

\* rhythm.bpm || 120
RhythmBpmOrDefault(adv) == IF adv.rhythm /\ adv.rbpm # 0 THEN adv.rbpm ELSE DefaultBpm

\* findBestTransition(sourceTrack, targetTrack) on two analysis objects.  An
\* analysis object has the fields format, metadata, rhythm and timestamp and
\* no duration, so defaultTransitionPoint = Math.floor(undefined * 0.8) = NaN.
\* duration = 0 is the missing field `duration` of the result.
findBestTransition(sourceTrack, targetTrack) ==
  LET defaultTransitionPoint == NaN
  IN IF ~sourceTrack.rhythm \/ ~targetTrack.rhythm
     THEN [threw |-> FALSE,
           transitionPoint |-> defaultTransitionPoint,
           bpmDifference |-> RhythmBpmOrDefault(targetTrack) - RhythmBpmOrDefault(sourceTrack),
           keyCompatibility |-> "unknown",
           type |-> "simple",
           duration |-> 0]
     ELSE
       LET bestTransitionPoint ==
             IF PhraseIndexes(sourceTrack) = {} THEN defaultTransitionPoint
             ELSE BeatAt(sourceTrack,
                         CHOOSE i \in PhraseIndexes(sourceTrack) :
                           \A j \in PhraseIndexes(sourceTrack) : i <= j)
           bpmDifference == BpmDifference(sourceTrack.rbpm, targetTrack.rbpm)
           keyCompatibility ==
             analyzeKeyCompatibility(sourceTrack.key, sourceTrack.scale,
                                     targetTrack.key, targetTrack.scale)
       IN [threw |-> keyCompatibility = "throw",
           transitionPoint |-> bestTransitionPoint,
           bpmDifference |-> bpmDifference,
           keyCompatibility |-> keyCompatibility,
           type |-> determineTransitionType(BpmCompatibility(bpmDifference),
                                            keyCompatibility),
           duration |-> 0]

\* the fallback branch of generateTransitionPoints
FallbackTransition(currentTrack, nextTrack) ==
  LET currentDuration == IF currentTrack.duration = 0 THEN DefaultDuration
                         ELSE currentTrack.duration
      bpmDiff == BpmOrDefault(nextTrack) - BpmOrDefault(currentTrack)
  IN [threw |-> FALSE,
      transitionPoint |-> (currentDuration * 8) \div 10,
      bpmDifference |-> bpmDiff,
      keyCompatibility |-> "",
      type |-> IF Abs(bpmDiff) < 5 THEN "beatmatch"
               ELSE IF Abs(bpmDiff) > 15 THEN "long_fade" ELSE "fade",
      duration |-> IF Abs(bpmDiff) < 5 THEN 6000
                   ELSE IF Abs(bpmDiff) > 15 THEN 12000 ELSE 8000]

\* mutation of TransitionFor: toTrack is the id of the outgoing track
TransitionToItself(currentTrack, nextTrack) ==
  [threw |-> FALSE, fromTrack |-> currentTrack.id, toTrack |-> currentTrack.id,
   transitionPoint |-> 0, bpmDifference |-> 0, keyCompatibility |-> "",
   transitionType |-> "fade", transitionDuration |-> 8000]

\* one iteration of the loop of generateTransitionPoints
TransitionFor(currentTrack, nextTrack) ==
  LET transitionInfo ==
        IF currentTrack.adv.present /\ nextTrack.adv.present
        THEN findBestTransition(currentTrack.adv, nextTrack.adv)
        ELSE FallbackTransition(currentTrack, nextTrack)
  IN [threw |-> transitionInfo.threw,
      fromTrack |-> currentTrack.id,
      toTrack |-> nextTrack.id,
      transitionPoint |-> transitionInfo.transitionPoint,
      bpmDifference |-> transitionInfo.bpmDifference,
      keyCompatibility |-> transitionInfo.keyCompatibility,
      transitionType |-> transitionInfo.type,
      transitionDuration |-> IF transitionInfo.duration = 0 THEN 8000
                             ELSE transitionInfo.duration]

generateTransitionPoints(orderedTracks) ==
  [i \in 1..(Len(orderedTracks) - 1) |-> TransitionFor(orderedTracks[i], orderedTracks[i + 1])]

NoMix ==
  [status |-> "none", tracks |-> <<>>, transitions |-> <<>>, totalDuration |-> 0,
   hasAdvancedAnalysis |-> FALSE]

\* generateMix after the tracks are fetched and analysed and after
\* orderedTracks = calculateMixOrder(analyzedTracks); an exception of
\* generateTransitionPoints is rethrown and no mix is returned
generateMix(analyzedTracks, orderedTracks) ==
  LET transitions == generateTransitionPoints(orderedTracks)
  IN IF \E i \in 1..Len(transitions) : transitions[i].threw
     THEN [NoMix EXCEPT !.status = "throw"]
     ELSE [status |-> "ok",
           tracks |-> orderedTracks,
           transitions |-> transitions,
           totalDuration |->
             SumSeq([k \in 1..Len(orderedTracks) |->
                       IF orderedTracks[k].duration = 0 THEN DefaultDuration
                       ELSE orderedTracks[k].duration]),
           hasAdvancedAnalysis |->
             \E k \in 1..Len(analyzedTracks) : analyzedTracks[k].adv.present]

(***************************************************************************)
(* The planner's specification: one planning run on analysed tracks drawn  *)
(* from TrackInputs.  The ids are pairwise distinct (the id of the k-th    *)
(* input track is k).                                                      *)
(***************************************************************************)
BpmValues == {0, 120, 122, 180}
DurationValues == {0, 10000, 300000}
AdvValues ==
  { EmptyRhythm,
    Rhythm(128, "C", "major", 20, <<12, 18>>),
    Rhythm(129, "E", "minor", 30, <<>>),
    Rhythm(100, "F#", "major", 0, <<27>>) }

\* what one analysed track can look like, without its id
TrackShapes ==
  [bpm : BpmValues, duration : {10000}, adv : {NoAdv}]
    \cup [bpm : {120}, duration : DurationValues, adv : {NoAdv}]
    \cup [bpm : {0, 122}, duration : {300000}, adv : AdvValues]
    \cup [bpm : {129}, duration : {300000}, adv : {Rhythm(129, "C", "major", 20, <<>>)}]

\* the inputs of n tracks
TrackInputs(n) ==
  { [k \in 1..n |-> [id |-> k, bpm |-> f[k].bpm, duration |-> f[k].duration,
                     adv |-> f[k].adv]] : f \in [1..n -> TrackShapes] }

\* the shapes of the tracks of a longer input, all of them in TrackShapes
LongShapes ==
  [bpm : {0, 122}, duration : {10000}, adv : {NoAdv}]
    \cup [bpm : {122}, duration : {300000},
          adv : {Rhythm(100, "F#", "major", 0, <<27>>)}]

\* the inputs of LongTracks tracks
LongInputs ==
  { [k \in 1..LongTracks |-> [id |-> k, bpm |-> f[k].bpm, duration |-> f[k].duration,
                              adv |-> f[k].adv]] : f \in [1..LongTracks -> LongShapes] }

(***************************************************************************)
(* Playback Engine: class AudioMixer (src/unnamed/part_002).               *)
(*                                                                         *)
(* Array indexes are the code's (from 0).  A playback position is counted  *)
(* in coarse units: position 0 is the first 3 seconds of a track (where    *)
(* previousTrack goes back one track), a transition point is the unit the  *)
(* 500 ms window [transitionPoint, transitionPoint + 500) lies in, and     *)
(* position dur is the end of the track.  Gains are in hundredths, EQ      *)
(* gains in tenths of a dB, tempo ratios in thousandths.                   *)
(***************************************************************************)
MAX_AUDIO_RETRIES == 3

N == Len(mTracks)
Idx == 0..(N - 1)
Track(i) == mTracks[i + 1]

\* An AudioParam: its value now and the automation events still ahead, in
\* time order; dt counts the quarters of the transition's duration until the
\* event.  kind "ramp" is linearRampToValueAtTime, "set" is setValueAtTime.
Param(v) == [value |-> v, events |-> <<>>]

\* AudioParam.value = v: the value changes now, the scheduled events stay
SetValue(p, v) == [p EXCEPT !.value = v]

\* insert event e behind the events that are not later than it
RECURSIVE InsertEvent(_, _)
InsertEvent(evs, e) ==
  IF evs = <<>> THEN <<e>>
  ELSE IF Head(evs).dt <= e.dt THEN <<Head(evs)>> \o InsertEvent(Tail(evs), e)
  ELSE <<e>> \o evs

\* setValueAtTime(v, startTime + dt quarters); at dt = 0 it takes effect now
SetValueAtTime(p, v, dt) ==
  IF dt = 0 THEN [p EXCEPT !.value = v]
  ELSE [p EXCEPT !.events = InsertEvent(@, [dt |-> dt, v |-> v, kind |-> "set"])]

\* linearRampToValueAtTime(v, startTime + dt quarters)
LinearRampToValueAtTime(p, v, dt) ==
  [p EXCEPT !.events = InsertEvent(@, [dt |-> dt, v |-> v, kind |-> "ramp"])]

\* a quarter of the transition's duration passes on the audio clock: the
\* value moves along the ramp to the next event, and takes the value of every
\* event that is reached
RECURSIVE Reached(_, _)
Reached(v, evs) ==
  IF evs = <<>> \/ Head(evs).dt > 1 THEN v ELSE Reached(Head(evs).v, Tail(evs))

ParamTick(p) ==
  IF p.events = <<>> THEN p
  ELSE
    LET e == Head(p.events)
        moved == IF e.kind = "ramp" THEN p.value + ((e.v - p.value) \div e.dt)
                 ELSE p.value
        rest == SelectSeq(p.events, LAMBDA x : x.dt > 1)
    IN [value |-> Reached(moved, p.events),
        events |-> [k \in 1..Len(rest) |-> [rest[k] EXCEPT !.dt = @ - 1]]]

\* audio.play(): rejected when the element's load has failed; an element that
\* has played to its end starts again from position 0
ElPlay(a, dur) ==
  IF a.load = "failed" THEN a
  ELSE [a EXCEPT !.st = "playing", !.pos = IF a.pos >= dur THEN 0 ELSE a.pos]

ElPause(a) == [a EXCEPT !.st = "paused"]

\* the element plays: it is not paused and its stream has not failed
Playing(i) == audio[i].st = "playing" /\ audio[i].load # "failed"

\* a pending timer; the fields a kind does not use are 0
\*   end     the end-of-transition callback of startAdvancedTransition
\*           (idx = currentIndex, to = nextIndex, step = the quarters of
\*           transitionDuration that have passed since it was set)
\*   half    the setTimeout of prepareBeatsyncTransition (idx = nextIndex)
\*   ramp    the setInterval of prepareBeatsyncTransition (idx = nextIndex,
\*           step = the steps done)
\*   retry   the reload of handleAudioError (step = audioLoadRetries)
\*   skip    the auto-skip of handleAudioError (idx = the track that failed)
\*   stalled the stalledTimer of the 'stalled' listener
\* target (history) is -1 until a skip or a seek happens while the timer's
\* transition is in flight, and then the index the last such skip or seek
\* made the current track.
Timer(kind, idx, to, step, ratio, delay) ==
  [kind |-> kind, idx |-> idx, to |-> to, step |-> step, ratio |-> ratio,
   delay |-> delay, target |-> -1]

TransitionTimerKinds == {"end", "half", "ramp"}

RECURSIVE Pow2(_)
Pow2(k) == IF k = 0 THEN 1 ELSE 2 * Pow2(k - 1)

\* this.transitions.find(t => t.fromTrack === id); 0 when there is none
TransitionIndex(id) ==
  LET hits == {k \in 1..Len(mTransitions) : mTransitions[k].fromTrack = id}
  IN IF hits = {} THEN 0 ELSE CHOOSE k \in hits : \A j \in hits : k <= j

(***************************************************************************)
(* The state changes of the methods, as functions of the state they start  *)
(* from.  A mixer state M is the record of the fields the methods write.   *)
(***************************************************************************)
Fields ==
  [cur |-> currentTrackIndex, playing |-> isPlaying, crossfading |-> isCrossfading,
   audio |-> audio, gain |-> gain, eq |-> eq, tempo |-> tempoAdjustments,
   retries |-> retries, timers |-> timers]

\* adjustTempo(tempoRatio): no SoundTouch processor is ever created, so the
\* playbackRate fallback is taken
adjustTempo(M, tempoRatio) ==
  [M EXCEPT !.tempo[M.cur] = tempoRatio, !.audio[M.cur].rate = tempoRatio]

\* the guard of adjustEQ holds after initialize: audioContext is set and
\* currentTrackIndex >= 0
adjustEQ(M, band, g) ==
  [M EXCEPT !.eq[M.cur][band] = SetValue(@, g)]

\* resetTrackEffects without the reset of the three EQ bands
resetTrackEffectsKeepingEQ(M, index) ==
  [M EXCEPT !.audio[index].rate = 1000,
            !.tempo[index] = 1000,
            !.gain[index] = SetValue(@, 0)]

resetTrackEffects(M, index) ==
  [M EXCEPT !.eq[index] = [low |-> SetValue(@.low, 0), mid |-> SetValue(@.mid, 0),
                           high |-> SetValue(@.high, 0)],
            !.audio[index].rate = 1000,
            !.tempo[index] = 1000,
            !.gain[index] = SetValue(@, 0)]

\* the part nextTrack and previousTrack share: leave currentIndex for target
SwitchTo(M, currentIndex, target) ==
  LET M1 == [M EXCEPT !.audio[currentIndex] = ElPause(@),
                      !.gain[currentIndex] = SetValue(@, 0)]
      M2 == resetTrackEffects(M1, currentIndex)
      M3 == [M2 EXCEPT !.audio[target].pos = 0,
                       !.gain[target] = SetValue(@, 100),
                       !.cur = target]
      M4 == IF M3.playing
            THEN [M3 EXCEPT !.audio[target] = ElPlay(@, Track(target).dur)]
            ELSE M3
  IN IF M4.playing /\ M4.tempo[target] # 1000
     THEN adjustTempo(M4, M4.tempo[target])
     ELSE M4

nextTrack(M) ==
  IF N <= 1 THEN M
  ELSE SwitchTo(M, M.cur, (M.cur + 1) % N)

previousTrack(M) ==
  IF N <= 1 THEN M
  ELSE IF M.audio[M.cur].pos > 0
  THEN [M EXCEPT !.audio[M.cur].pos = 0]
  ELSE SwitchTo(M, M.cur, (M.cur - 1 + N) % N)

play(M) ==
  LET M1 == [M EXCEPT !.playing = TRUE,
                      !.audio[M.cur] = ElPlay(@, Track(M.cur).dur)]
  IN IF M1.tempo[M1.cur] # 1000 THEN adjustTempo(M1, M1.tempo[M1.cur]) ELSE M1

pause(M) ==
  [M EXCEPT !.playing = FALSE, !.audio[M.cur] = ElPause(@)]

\* prepareBeatsyncTransition: transition.sourceBpm || 120, transition.targetBpm || 120
prepareBeatsyncTransition(M, t, currentIndex, nextIndex) ==
  LET currentBpm == IF t.sourceBpm = 0 THEN 120 ELSE t.sourceBpm
      nextBpm == IF t.targetBpm = 0 THEN 120 ELSE t.targetBpm
      tempoRatio == (1000 * currentBpm) \div nextBpm
      transitionDuration == IF t.transitionDuration = 0 THEN 5000 ELSE t.transitionDuration
  IN IF Abs(nextBpm - currentBpm) > 2
     THEN [M EXCEPT !.tempo[nextIndex] = tempoRatio,
                    !.audio[nextIndex].rate = tempoRatio,
                    !.timers = Append(@, Timer("half", nextIndex, 0, 0, tempoRatio,
                                               transitionDuration \div 2))]
     ELSE M

prepareHarmonicTransition(M, t, currentIndex, nextIndex) ==
  IF t.keyCompatibility = "clash"
  THEN [M EXCEPT !.eq[nextIndex].mid = SetValue(@, -30)]
  ELSE IF t.keyCompatibility \in {"compatible", "perfect"}
  THEN [M EXCEPT !.eq[nextIndex].high = SetValue(@, 20)]
  ELSE M

\* cos and sin of (q / 4) * (pi / 2) in hundredths: the curve of
\* equalPowerCrossfade, which the code lays out in 100 ramps, at the quarters
CosQuarter(q) == CASE q = 0 -> 100 [] q = 1 -> 92 [] q = 2 -> 71 [] q = 3 -> 38 [] OTHER -> 0
SinQuarter(q) == CosQuarter(4 - q)

\* the ramps of one of the two curves from quarter q on
RECURSIVE RampCurve(_, _, _)
RampCurve(p, curve, q) ==
  IF q > 4 THEN p
  ELSE RampCurve(LinearRampToValueAtTime(
                   p, IF curve = "cos" THEN CosQuarter(q) ELSE SinQuarter(q), q),
                 curve, q + 1)

equalPowerCrossfade(M, fromIndex, toIndex) ==
  [M EXCEPT !.gain[fromIndex] = RampCurve(SetValueAtTime(@, 100, 0), "cos", 1),
            !.gain[toIndex] = RampCurve(SetValueAtTime(@, 0, 0), "sin", 1)]

linearCrossfade(M, fromIndex, toIndex) ==
  [M EXCEPT !.gain[fromIndex] = LinearRampToValueAtTime(SetValueAtTime(@, 100, 0), 0, 4),
            !.gain[toIndex] = LinearRampToValueAtTime(SetValueAtTime(@, 0, 0), 100, 4)]

cutEQTransitionFadingAtOnce(M, fromIndex, toIndex) ==
  [M EXCEPT
     !.eq[fromIndex].high = LinearRampToValueAtTime(SetValueAtTime(@, 0, 0), -120, 1),
     !.eq[fromIndex].mid = LinearRampToValueAtTime(SetValueAtTime(@, 0, 0), -90, 2),
     !.gain[toIndex] =
        LinearRampToValueAtTime(
          LinearRampToValueAtTime(SetValueAtTime(@, 0, 0), 70, 2), 100, 4),
     !.eq[fromIndex].low = LinearRampToValueAtTime(SetValueAtTime(@, 0, 2), -120, 3),
     !.gain[fromIndex] = LinearRampToValueAtTime(SetValueAtTime(@, 100, 0), 0, 4)]

cutEQTransition(M, fromIndex, toIndex) ==
  [M EXCEPT
     !.eq[fromIndex].high = LinearRampToValueAtTime(SetValueAtTime(@, 0, 0), -120, 1),
     !.eq[fromIndex].mid = LinearRampToValueAtTime(SetValueAtTime(@, 0, 0), -90, 2),
     !.gain[toIndex] =
        LinearRampToValueAtTime(
          LinearRampToValueAtTime(SetValueAtTime(@, 0, 0), 70, 2), 100, 4),
     !.eq[fromIndex].low = LinearRampToValueAtTime(SetValueAtTime(@, 0, 2), -120, 3),
     !.gain[fromIndex] = LinearRampToValueAtTime(SetValueAtTime(@, 100, 2), 0, 4)]

performVolumeTransition(M, transitionType, fromIndex, toIndex) ==
  IF transitionType \in {"beatmatch_blend", "beatmatch"}
  THEN equalPowerCrossfade(M, fromIndex, toIndex)
  ELSE IF transitionType = "cut_eq" THEN cutEQTransition(M, fromIndex, toIndex)
  ELSE linearCrossfade(M, fromIndex, toIndex)

\* startAdvancedTransition up to the setTimeout of its end callback;
\* this.autoHarmonicMixing is true and never written
startAdvancedTransition(M, t) ==
  LET currentIndex == M.cur
      nextIndex == (currentIndex + 1) % N
      transitionType == IF t.transitionType = "" THEN "fade" ELSE t.transitionType
      transitionDuration == IF t.transitionDuration = 0 THEN 5000 ELSE t.transitionDuration
      M1 == [M EXCEPT !.audio[nextIndex] = ElPlay(@, Track(nextIndex).dur)]
      M2 == IF beatmatchingEnabled /\ Abs(t.bpmDifference) > 2
            THEN prepareBeatsyncTransition(M1, t, currentIndex, nextIndex)
            ELSE M1
      M3 == IF t.keyCompatibility # ""
            THEN prepareHarmonicTransition(M2, t, currentIndex, nextIndex)
            ELSE M2
      M4 == performVolumeTransition(M3, transitionType, currentIndex, nextIndex)
  IN [M4 EXCEPT !.timers = Append(@, Timer("end", currentIndex, nextIndex, 0, 0,
                                           transitionDuration))]

\* the end-of-transition callback
endOfTransition(M, currentIndex, nextIndex) ==
  LET M1 == [M EXCEPT !.audio[currentIndex] = ElPause(@)]
      M2 == resetTrackEffects(M1, currentIndex)
  IN [M2 EXCEPT !.cur = nextIndex, !.crossfading = FALSE]

\* the 'timeupdate' listener of the element `index`, at its new position
timeupdate(M, index) ==
  LET k == TransitionIndex(Track(index).id)
  IN IF index # M.cur THEN M
     ELSE IF /\ k # 0
             /\ ~M.crossfading
             /\ M.audio[index].pos = mTransitions[k].transitionPoint
     THEN startAdvancedTransition([M EXCEPT !.crossfading = TRUE], mTransitions[k])
     ELSE M

\* mutation of handleAudioError: a reload is scheduled once more at the cap
handleAudioErrorPastCap(M, index) ==
  IF M.retries[index] <= MAX_AUDIO_RETRIES
  THEN [M EXCEPT !.retries[index] = @ + 1,
                 !.timers = Append(@, Timer("retry", index, 0, M.retries[index] + 1, 0,
                                            1000 * Pow2(M.retries[index])))]
  ELSE IF index = M.cur /\ N > 1
  THEN [M EXCEPT !.timers = Append(@, Timer("skip", index, 0, 0, 0, 1000))]
  ELSE M

\* handleAudioError of the element `index`
handleAudioError(M, index) ==
  IF M.retries[index] < MAX_AUDIO_RETRIES
  THEN [M EXCEPT !.retries[index] = @ + 1,
                 !.timers = Append(@, Timer("retry", index, 0, M.retries[index] + 1, 0,
                                            1000 * Pow2(M.retries[index])))]
  ELSE IF index = M.cur /\ N > 1
  THEN [M EXCEPT !.timers = Append(@, Timer("skip", index, 0, 0, 0, 1000))]
  ELSE M

\* the retry callback: audio.src = ...; audio.load() resets the element and
\* leaves it paused; it is played again if it is the current track
retryLoad(M, index) ==
  LET M1 == [M EXCEPT !.audio[index] =
                        [@ EXCEPT !.load = "loading", !.st = "paused", !.pos = 0]]
  IN IF M1.playing /\ index = M1.cur
     THEN [M1 EXCEPT !.audio[index] = ElPlay(@, Track(index).dur)]
     ELSE M1

\* one firing of the setInterval callback of prepareBeatsyncTransition: timer
\* k of M.timers, which stays pending until its tenth step
rampStepStoppingShort(M, k) ==
  LET t == M.timers[k]
      step == t.step + 1
      newRatio == t.ratio + ((1000 - t.ratio) * step) \div 10
      M1 == [M EXCEPT !.audio[t.idx].rate = newRatio, !.tempo[t.idx] = newRatio]
  IN IF step >= 10 THEN [M EXCEPT !.timers = RemoveAt(@, k)]
     ELSE [M1 EXCEPT !.timers[k].step = step]

rampStep(M, k) ==
  LET t == M.timers[k]
      step == t.step + 1
      newRatio == IF step >= 10 THEN 1000
                  ELSE t.ratio + ((1000 - t.ratio) * step) \div 10
      M1 == [M EXCEPT !.audio[t.idx].rate = newRatio, !.tempo[t.idx] = newRatio]
  IN IF step >= 10 THEN [M1 EXCEPT !.timers = RemoveAt(@, k)]
     ELSE [M1 EXCEPT !.timers[k].step = step]

(***************************************************************************)
(* The mixes the playback engine is initialised with: mixData.tracks and   *)
(* mixData.transitions as generateMix lays them out, one transition per    *)
(* adjacent pair.  sourceBpm and targetBpm are read by                     *)
(* prepareBeatsyncTransition; generateTransitionPoints does not copy them  *)
(* into its transitions (0 = missing), the beatmatch_blend style carries   *)
(* them.  The beatmatch_fade style is a transition as findBestTransition   *)
(* and generateTransitionPoints make it for two tracks 6 BPM apart.        *)
(***************************************************************************)
MixLengths == {2, 3}

\* the indexes of the tracks of these mixes
MixIndexes == UNION {0..(n - 1) : n \in MixLengths}
TransitionPointPos == TrackLen - 1

TransitionStyles ==
  { [transitionType |-> "long_fade", transitionDuration |-> 12000, bpmDifference |-> 60,
     keyCompatibility |-> "", sourceBpm |-> 0, targetBpm |-> 0],
    [transitionType |-> "cut_eq", transitionDuration |-> 8000, bpmDifference |-> -28,
     keyCompatibility |-> "clash", sourceBpm |-> 0, targetBpm |-> 0],
    [transitionType |-> "beatmatch_blend", transitionDuration |-> 8000, bpmDifference |-> 6,
     keyCompatibility |-> "perfect", sourceBpm |-> 120, targetBpm |-> 126],
    [transitionType |-> "beatmatch_fade", transitionDuration |-> 8000, bpmDifference |-> 6,
     keyCompatibility |-> "moderate", sourceBpm |-> 0, targetBpm |-> 0] }

\* two tracks are played in every style, more tracks with the plain fade
StylesOf(n) ==
  IF n = 2 THEN TransitionStyles
  ELSE {s \in TransitionStyles : s.transitionType = "long_fade"}

MixData(n, style) ==
  [tracks |-> [k \in 1..n |-> [id |-> k, dur |-> TrackLen]],
   transitions |-> [k \in 1..(n - 1) |->
                      [fromTrack |-> k, toTrack |-> k + 1,
                       transitionPoint |-> TransitionPointPos,
                       transitionDuration |-> style.transitionDuration,
                       transitionType |-> style.transitionType,
                       bpmDifference |-> style.bpmDifference,
                       keyCompatibility |-> style.keyCompatibility,
                       sourceBpm |-> style.sourceBpm,
                       targetBpm |-> style.targetBpm]]]

NoOp == [op |-> "none", idx |-> -1, inflight |-> FALSE, target |-> -1]

\* no call of the analyzer's functions is being looked at
NoProbe ==
  [fn |-> "none", sourceKey |-> "", sourceScale |-> "", targetKey |-> "",
   targetScale |-> "", bpmDifference |-> 0, keyCompatibility |-> "",
   sourceBpm |-> 0, targetBpm |-> 0]

\* no pair of BPMs has been rated
NoTempo ==
  [forward |-> [delta |-> 0, class |-> "none"],
   backward |-> [delta |-> 0, class |-> "none"]]

\* the fields after the constructor, initialize(mixData) and
\* createAudioElements: every element is created with preload = 'auto' and
\* starts to load
InitFields(n) ==
  /\ currentTrackIndex = 0
  /\ isPlaying = FALSE
  /\ isCrossfading = FALSE
  /\ beatmatchingEnabled = TRUE
  /\ audio = [i \in 0..(n - 1) |->
                [st |-> "paused", pos |-> 0, rate |-> 1000, load |-> "loading"]]
  /\ gain = [i \in 0..(n - 1) |-> Param(IF i = 0 THEN 100 ELSE 0)]
  /\ eq = [i \in 0..(n - 1) |-> [low |-> Param(0), mid |-> Param(0), high |-> Param(0)]]
  /\ tempoAdjustments = [i \in 0..(n - 1) |-> 1000]
  /\ retries = [i \in 0..(n - 1) |-> 0]
  /\ timers = <<>>
  /\ lastOp = NoOp

Init ==
  /\ probe = NoProbe
  /\ verdict = "none"
  /\ rated = NoTempo
  /\ ServicesIdle
  /\ input = <<>>
  /\ order = <<>>
  /\ mix = NoMix
  /\ \E n \in MixLengths : \E style \in StylesOf(n) :
       /\ mTracks = MixData(n, style).tracks
       /\ mTransitions = MixData(n, style).transitions
       /\ broken \in {b \in SUBSET (0..(n - 1)) : Cardinality(b) <= MaxBroken}
       /\ ops = FaultCost * Cardinality(broken)
       /\ InitFields(n)

(***************************************************************************)
(* Steps of the playback engine.                                           *)
(***************************************************************************)
\* a transition is in flight: its end callback is still pending
InFlight == isCrossfading \/ \E k \in 1..Len(timers) : timers[k].kind = "end"

\* an automation event of some AudioParam is still ahead
AutomationPending ==
  \E i \in Idx : \/ gain[i].events # <<>>
                 \/ \E b \in {"low", "mid", "high"} : eq[i][b].events # <<>>

\* the element is playing with data: it has fired 'playing'
Sounding(a) == a.st = "playing" /\ a.load = "ready"

\* history: a user operation on the current track `index`, with whether a
\* transition was in flight; an event of an element or of the clock; the
\* firing of timer t
Op(name, index) == [op |-> name, idx |-> index, inflight |-> InFlight, target |-> -1]
EventOp(name) == [op |-> name, idx |-> -1, inflight |-> FALSE, target |-> -1]
TimerOp(name, t) == [op |-> name, idx |-> t.idx, inflight |-> FALSE, target |-> t.target]

\* history: a skip or a seek to the track M.cur reaches the pending timers of
\* the transition in flight
MarkTarget(M) ==
  [M EXCEPT !.timers = [k \in 1..Len(M.timers) |->
                          IF M.timers[k].kind \in TransitionTimerKinds
                          THEN [M.timers[k] EXCEPT !.target = M.cur]
                          ELSE M.timers[k]]]

\* the state after a handler that ends in the fields M.  An element that
\* starts to play with data fires 'playing', whose once-listener clears the
\* stalledTimer of that element.
Commit(M, op) ==
  LET started == {i \in Idx : ~Sounding(audio[i]) /\ Sounding(M.audio[i])}
  IN /\ currentTrackIndex' = M.cur
     /\ isPlaying' = M.playing
     /\ isCrossfading' = M.crossfading
     /\ audio' = M.audio
     /\ gain' = M.gain
     /\ eq' = M.eq
     /\ tempoAdjustments' = M.tempo
     /\ retries' = M.retries
     /\ timers' = SelectSeq(M.timers,
                            LAMBDA t : ~(t.kind = "stalled" /\ t.idx \in started))
     /\ lastOp' = op
     /\ UNCHANGED <<serviceVars, planVars, probeVars, mTracks, mTransitions, broken>>

UserStep(M, op, cost) ==
  /\ ops + cost <= MaxUserOps
  /\ ops' = ops + cost
  /\ Commit(M, op)
  /\ UNCHANGED beatmatchingEnabled

EngineStep(M, op) ==
  /\ Commit(M, op)
  /\ UNCHANGED <<beatmatchingEnabled, ops>>

\* ---- the user's controls ----
TogglePlayPause ==
  UserStep(IF isPlaying THEN pause(Fields) ELSE play(Fields),
           Op("TogglePlayPause", currentTrackIndex), 1)

NextTrack ==
  UserStep(MarkTarget(nextTrack(Fields)), Op("NextTrack", currentTrackIndex), 1)

PreviousTrack ==
  UserStep(MarkTarget(previousTrack(Fields)), Op("PreviousTrack", currentTrackIndex), 1)

\* a click on the progress bar: audio.currentTime = clickPosition *
\* audio.duration throws while the duration is unknown (NaN); the seek fires
\* 'timeupdate' at the new position
Seek(p) ==
  /\ audio[currentTrackIndex].load = "ready"
  /\ UserStep(timeupdate(MarkTarget([Fields EXCEPT !.audio[currentTrackIndex].pos = p]),
                         currentTrackIndex),
              Op("Seek", currentTrackIndex), 1)

EqSettings == {-60}
TempoSettings == {900}

AdjustEQ(band, g) ==
  UserStep(adjustEQ(Fields, band, g), Op("AdjustEQ", currentTrackIndex), ManualCost)

AdjustTempo(tempoRatio) ==
  UserStep(adjustTempo(Fields, tempoRatio), Op("AdjustTempo", currentTrackIndex),
           ManualCost)

\* the 'change' listener of the beatmatch toggle
ToggleBeatmatch ==
  /\ ops + ManualCost <= MaxUserOps
  /\ ops' = ops + ManualCost
  /\ beatmatchingEnabled' = ~beatmatchingEnabled
  /\ lastOp' = Op("ToggleBeatmatch", currentTrackIndex)
  /\ UNCHANGED <<serviceVars, planVars, probeVars, mTracks, mTransitions, currentTrackIndex, isPlaying,
                 isCrossfading, audio, gain, eq, tempoAdjustments, retries, timers,
                 broken>>

\* ---- the audio elements and the audio clock ----
\* the 'ended' listener of the element `index`
ended(M, index) ==
  IF M.cur = index THEN nextTrack(M) ELSE M

\* playback of element i moves on by one position and fires 'timeupdate'
Advance(i) ==
  /\ Sounding(audio[i])
  /\ audio[i].pos + 1 < Track(i).dur
  /\ EngineStep(timeupdate([Fields EXCEPT !.audio[i].pos = @ + 1], i),
                EventOp("Advance"))

\* playback of element i reaches the end of the track: the last
\* 'timeupdate', the element becomes paused, then 'ended'
Ended(i) ==
  /\ Sounding(audio[i])
  /\ audio[i].pos + 1 = Track(i).dur
  /\ LET M1 == timeupdate([Fields EXCEPT !.audio[i].pos = @ + 1], i)
     IN EngineStep(ended([M1 EXCEPT !.audio[i] = ElPause(@)], i), EventOp("Ended"))

\* the stream of element i delivers its data
LoadOk(i) ==
  /\ audio[i].load = "loading"
  /\ i \notin broken
  /\ EngineStep([Fields EXCEPT !.audio[i].load = "ready"], EventOp("LoadOk"))

\* the stream of element i fails: the 'error' listener
ErrorEvent(i) ==
  /\ audio[i].load = "loading"
  /\ i \in broken
  /\ EngineStep(handleAudioError([Fields EXCEPT !.audio[i].load = "failed"], i),
                EventOp("ErrorEvent"))

\* the 'stalled' listener of element i
Stalled(i) ==
  /\ ops + FaultCost <= MaxUserOps
  /\ audio[i].load # "failed"
  /\ ops' = ops + FaultCost
  /\ Commit([Fields EXCEPT !.timers = Append(@, Timer("stalled", i, 0, 0, 0, 5000))],
            EventOp("Stalled"))
  /\ UNCHANGED beatmatchingEnabled

\* The timers of a transition and the clock of the AudioContext run on the
\* same time: with D the transitionDuration, the ramps are laid out to the
\* quarters of D, the setTimeout of prepareBeatsyncTransition comes at D / 2,
\* step s of its interval at D / 2 + s * D / 20, and the end callback at D,
\* together with the tenth step.  The two are due at the same time with
\* different delays (D and D / 20), so either of them may run first; the
\* other one follows it.
Age ==
  IF \E k \in 1..Len(timers) : timers[k].kind = "end"
  THEN timers[CHOOSE k \in 1..Len(timers) : timers[k].kind = "end"].step
  ELSE 4

HalfPending == \E k \in 1..Len(timers) : timers[k].kind = "half"

RampAt(s) == \A k \in 1..Len(timers) : timers[k].kind = "ramp" => timers[k].step >= s

\* a quarter of the transition's duration passes on the clock of the
\* AudioContext
AudioTick ==
  /\ AutomationPending
  /\ Age + 1 >= 3 => ~HalfPending /\ RampAt(4)
  /\ Age + 1 >= 4 => RampAt(9)
  /\ EngineStep([Fields EXCEPT
                   !.timers = [k \in 1..Len(timers) |->
                                 IF timers[k].kind = "end"
                                 THEN [timers[k] EXCEPT !.step = @ + 1]
                                 ELSE timers[k]],
                   !.gain = [i \in Idx |-> ParamTick(gain[i])],
                   !.eq = [i \in Idx |-> [low |-> ParamTick(eq[i].low),
                                          mid |-> ParamTick(eq[i].mid),
                                          high |-> ParamTick(eq[i].high)]]],
                EventOp("AudioTick"))

\* ---- the timers ----
Without(k) == [Fields EXCEPT !.timers = RemoveAt(@, k)]

\* the tenth step of every interval that has done nine
RECURSIVE lastRampSteps(_)
lastRampSteps(M) ==
  LET due == {k \in 1..Len(M.timers) : M.timers[k].kind = "ramp" /\ M.timers[k].step = 9}
  IN IF due = {} THEN M ELSE lastRampSteps(rampStep(M, CHOOSE k \in due : TRUE))

\* the end callback, followed by the tenth step of the interval if that has
\* not run yet
EndTimer(k) ==
  /\ timers[k].kind = "end"
  /\ timers[k].step = 4
  /\ ~HalfPending
  /\ RampAt(9)
  /\ EngineStep(lastRampSteps(endOfTransition(Without(k), timers[k].idx, timers[k].to)),
                TimerOp("EndTimer", timers[k]))

\* the setTimeout callback of prepareBeatsyncTransition starts the interval
HalfTimer(k) ==
  /\ timers[k].kind = "half"
  /\ Age >= 2
  /\ LET t == timers[k]
         ramp == [Timer("ramp", t.idx, 0, 0, t.ratio, (t.delay \div 10))
                    EXCEPT !.target = t.target]
     IN EngineStep([Without(k) EXCEPT !.timers = Append(@, ramp)],
                   TimerOp("HalfTimer", t))

\* a step of the interval; the tenth one here runs before the end callback
RampStep(k) ==
  /\ timers[k].kind = "ramp"
  /\ timers[k].step + 1 >= 6 => Age >= 3
  /\ timers[k].step + 1 >= 10 => Age >= 4
  /\ EngineStep(rampStep(Fields, k), TimerOp("RampStep", timers[k]))

RetryTimer(k) ==
  /\ timers[k].kind = "retry"
  /\ EngineStep(retryLoad(Without(k), timers[k].idx), TimerOp("RetryTimer", timers[k]))

\* setTimeout(() => this.nextTrack(), 1000)
SkipTimer(k) ==
  /\ timers[k].kind = "skip"
  /\ EngineStep(nextTrack(Without(k)), TimerOp("SkipTimer", timers[k]))

\* the stalledTimer: handleAudioError(new Error('Playback stalled'))
StalledTimer(k) ==
  /\ timers[k].kind = "stalled"
  /\ EngineStep(handleAudioError(Without(k), timers[k].idx),
                TimerOp("StalledTimer", timers[k]))

Next ==
  \/ TogglePlayPause
  \/ NextTrack
  \/ PreviousTrack
  \/ \E p \in 0..(TrackLen - 1) : Seek(p)
  \/ \E band \in {"low", "mid", "high"}, g \in EqSettings : AdjustEQ(band, g)
  \/ \E r \in TempoSettings : AdjustTempo(r)
  \/ ToggleBeatmatch
  \/ \E i \in Idx : Advance(i)
  \/ \E i \in Idx : Ended(i)
  \/ \E i \in Idx : LoadOk(i)
  \/ \E i \in Idx : ErrorEvent(i)
  \/ \E i \in Idx : Stalled(i)
  \/ AudioTick
  \/ \E k \in 1..Len(timers) : EndTimer(k)
  \/ \E k \in 1..Len(timers) : HalfTimer(k)
  \/ \E k \in 1..Len(timers) : RampStep(k)
  \/ \E k \in 1..Len(timers) : RetryTimer(k)
  \/ \E k \in 1..Len(timers) : SkipTimer(k)
  \/ \E k \in 1..Len(timers) : StalledTimer(k)

Spec == Init /\ [][Next]_vars

(***************************************************************************)
(* The playback engine on a mix none of whose streams can be loaded: every *)
(* element fails each time it loads, so no track ever plays and no         *)
(* transition starts; the steps are those of Next that such a run can      *)
(* take.                                                                   *)
(***************************************************************************)
FailInit ==
  /\ probe = NoProbe
  /\ verdict = "none"
  /\ rated = NoTempo
  /\ ServicesIdle
  /\ input = <<>>
  /\ order = <<>>
  /\ mix = NoMix
  /\ \E n \in MixLengths : \E style \in StylesOf(3) :
       /\ mTracks = MixData(n, style).tracks
       /\ mTransitions = MixData(n, style).transitions
       /\ broken = 0..(n - 1)
       /\ ops = 0
       /\ InitFields(n)

FailNext ==
  \/ TogglePlayPause
  \/ NextTrack
  \/ PreviousTrack
  \/ \E i \in Idx : ErrorEvent(i)
  \/ \E i \in Idx : Stalled(i)
  \/ \E k \in 1..Len(timers) : RetryTimer(k)
  \/ \E k \in 1..Len(timers) : SkipTimer(k)
  \/ \E k \in 1..Len(timers) : StalledTimer(k)

FailSpec == FailInit /\ [][FailNext]_vars

(***************************************************************************)
(* The planner on its own: generateMix applied to analysed tracks drawn    *)
(* from TrackInputs; no playback engine has been initialised.              *)
(***************************************************************************)
PlanInit ==
  /\ probe = NoProbe
  /\ verdict = "none"
  /\ rated = NoTempo
  /\ ServicesIdle
  /\ \/ \E n \in 1..MaxTracks : input \in TrackInputs(n)
     \/ input \in LongInputs
  /\ order = <<>>
  /\ mix = NoMix
  /\ mTracks = <<>>
  /\ mTransitions = <<>>
  /\ broken = {}
  /\ ops = 0
  /\ InitFields(0)

GenerateMix ==
  /\ mix.status = "none"
  /\ order' = calculateMixOrder(input)
  /\ mix' = generateMix(input, order')
  /\ UNCHANGED <<serviceVars, input, mixerVars, probeVars>>

PlanNext == GenerateMix

PlanSpec == PlanInit /\ [][PlanNext]_vars

(***************************************************************************)
(* The route POST /generate-mix of the soundcloud-noauth router.  `input`  *)
(* is the body of the request: array is Array.isArray(trackIds), trackIds  *)
(* the IDs (empty when the field is missing or is no array).  `order` is   *)
(* the IDs in the order the handler computed, `mix` its response: status   *)
(* "rejected" is the 400, "failed" the 500, "ok" the 200 with the mix.     *)
(* A genre is the set of the words that genre.toLowerCase() includes.      *)
(***************************************************************************)
\* what SoundCloud answers getTrack(id) with; bpm, duration 0 = missing
Catalog(id) ==
  [id |-> id,
   bpm |-> IF id % 2 = 0 THEN 90 + 10 * id ELSE 0,
   duration |-> IF id % 3 = 0 THEN 0 ELSE 100000 * id,
   genre |-> CASE id % 4 = 1 -> {"deep", "house"}
               [] id % 4 = 3 -> {}
               [] OTHER -> {"hip", "hop"}]

estimateBpm(track) ==
  IF "house" \in track.genre THEN 128
  ELSE IF "techno" \in track.genre THEN 130
  ELSE IF "drum" \in track.genre /\ "bass" \in track.genre THEN 174
  ELSE IF "dubstep" \in track.genre THEN 140
  ELSE IF "hip" \in track.genre \/ "rap" \in track.genre THEN 95
  ELSE IF "trap" \in track.genre THEN 140
  ELSE IF "ambient" \in track.genre THEN 85
  ELSE 120

\* SoundCloudNoAuth.generateMix(trackIds) with every getTrack answered
SoundCloudGenerateMix(trackIds) ==
  LET tracks == [k \in 1..Len(trackIds) |-> Catalog(trackIds[k])]
      analyzedTracks ==
        [k \in 1..Len(tracks) |->
           [tracks[k] EXCEPT !.bpm = IF @ = 0 THEN estimateBpm(tracks[k]) ELSE @]]
      orderedTracks ==
        StableSort(analyzedTracks,
                   [k \in 1..Len(analyzedTracks) |->
                      IF analyzedTracks[k].bpm = 0 THEN DefaultBpm
                      ELSE analyzedTracks[k].bpm])
      Bpm(t) == IF t.bpm = 0 THEN DefaultBpm ELSE t.bpm
      Duration(t) == IF t.duration = 0 THEN DefaultDuration ELSE t.duration
      transitions ==
        [i \in 1..(Len(orderedTracks) - 1) |->
           [fromTrack |-> orderedTracks[i].id,
            toTrack |-> orderedTracks[i + 1].id,
            transitionPoint |-> (Duration(orderedTracks[i]) * 8) \div 10,
            bpmDifference |-> Bpm(orderedTracks[i + 1]) - Bpm(orderedTracks[i])]]
  IN [NoMix EXCEPT
        !.status = "ok",
        !.tracks = orderedTracks,
        !.transitions = transitions,
        !.totalDuration =
           SumSeq([k \in 1..Len(orderedTracks) |-> Duration(orderedTracks[k])])]

\* the mutation of ValidRequest that lets a single track through
ValidRequestOfOneTrack(body) ==
  body.array /\ Len(body.trackIds) >= 1

\* the negation of the handler's test
\* !Array.isArray(trackIds) || trackIds.length < 2
ValidRequest(body) ==
  body.array /\ Len(body.trackIds) >= 2

\* the handler of router.post('/generate-mix'); fetched = FALSE is a
\* getTrack that throws, which generateMix rethrows
PostGenerateMix(fetched) ==
  /\ mix.status = "none"
  /\ IF ~ValidRequest(input)
     THEN /\ mix' = [NoMix EXCEPT !.status = "rejected"]
          /\ order' = order
     ELSE IF ~fetched
     THEN /\ mix' = [NoMix EXCEPT !.status = "failed"]
          /\ order' = order
     ELSE /\ mix' = SoundCloudGenerateMix(input.trackIds)
          /\ order' = [k \in 1..Len(mix'.tracks) |-> mix'.tracks[k].id]
  /\ UNCHANGED <<serviceVars, input, mixerVars, probeVars>>

\* the bodies: no array, or up to MaxTracks IDs of the catalog
RequestBodies ==
  {[array |-> FALSE, trackIds |-> <<>>]}
    \cup {[array |-> TRUE, trackIds |-> ids] :
            ids \in UNION {[1..n -> 1..CatalogSize] : n \in 0..MaxTracks}}

RouteInit ==
  /\ probe = NoProbe
  /\ verdict = "none"
  /\ rated = NoTempo
  /\ ServicesIdle
  /\ input \in RequestBodies
  /\ order = <<>>
  /\ mix = NoMix
  /\ mTracks = <<>>
  /\ mTransitions = <<>>
  /\ broken = {}
  /\ ops = 0
  /\ InitFields(0)

RouteNext == \E fetched \in BOOLEAN : PostGenerateMix(fetched)

RouteSpec == RouteInit /\ [][RouteNext]_vars

(***************************************************************************)
(* Properties of the planner (checked under PlanSpec).                     *)
(***************************************************************************)
Planned == mix.status # "none"

OccurrencesOf(id, s) == Cardinality({j \in 1..Len(s) : s[j].id = id})

\* C1: for tracks with pairwise distinct ids, calculateMixOrder returns a
\* sequence that holds every input id exactly once: as many tracks as the
\* input, none twice, none left out, in the branch for fewer than 3 tracks
\* and in the weighted-vote branch.
C1_OrderIsPermutation ==
  Planned =>
    /\ Len(order) = Len(input)
    /\ \A k \in 1..Len(input) : OccurrencesOf(input[k].id, order) = 1
    /\ \A j \in 1..Len(order) : \E k \in 1..Len(input) : order[j].id = input[k].id

\* the weighted-vote branch has put another track first than the input did
C1_Witness ==
  /\ Planned
  /\ Len(input) = 3
  /\ order[1].id # input[1].id
  /\ \A k \in 1..3 : OccurrencesOf(input[k].id, order) = 1

\* C5: in every generated mix, each transition starts and ends within its
\* outgoing track: transitionPoint is a number and transitionPoint +
\* transitionDuration <= the duration of the outgoing track (180000 standing
\* in for a missing duration).
C5_TransitionFitsTrack ==
  mix.status = "ok" =>
    \A i \in 1..Len(mix.transitions) :
      LET t == mix.transitions[i]
          d == IF mix.tracks[i].duration = 0 THEN 180000 ELSE mix.tracks[i].duration
      IN /\ t.transitionPoint # NaN
         /\ t.transitionPoint + t.transitionDuration <= d

\* C6: a generated mix of n ordered tracks has n - 1 transitions, and
\* transition i leads from ordered track i to ordered track i + 1.
C6_TransitionsFollowOrder ==
  mix.status = "ok" =>
    /\ mix.tracks = order
    /\ Len(mix.transitions) = Len(order) - 1
    /\ \A i \in 1..Len(mix.transitions) :
         /\ mix.transitions[i].fromTrack = order[i].id
         /\ mix.transitions[i].toTrack = order[i + 1].id

\* a mix of three tracks whose order differs from the input order
C6_Witness ==
  /\ mix.status = "ok"
  /\ Len(order) = 3
  /\ Len(mix.transitions) = 2
  /\ order[1].id # input[1].id
  /\ mix.transitions[2].toTrack = order[3].id

\* C7: for 1 or 2 tracks, calculateMixOrder returns the input tracks
\* themselves, sorted by ascending BPM with a missing BPM counting as 120 and
\* tracks of equal BPM in input order.
C7_SmallSetSortedByBpm ==
  (Planned /\ Len(input) < 3) =>
    LET bpm(t) == IF t.bpm = 0 THEN 120 ELSE t.bpm
    IN /\ Len(order) = Len(input)
       /\ \A j \in 1..Len(order) : order[j] = input[order[j].id]
       /\ \A j \in 1..(Len(order) - 1) :
            \/ bpm(order[j]) < bpm(order[j + 1])
            \/ bpm(order[j]) = bpm(order[j + 1]) /\ order[j].id < order[j + 1].id

\* two tracks that the sort exchanges, the second without a BPM
C7_Witness ==
  /\ Planned
  /\ Len(input) = 2
  /\ input[1].bpm = 180
  /\ input[2].bpm = 0
  /\ order[1].id = 2
  /\ order[2].id = 1

(***************************************************************************)
(* The analyzer's functions on their own (src/src/audio-analyzer.js): one  *)
(* call of analyzeKeyCompatibility on two keys with their scales, or of    *)
(* determineTransitionType as findBestTransition calls it, on the rating   *)
(* of a BPM difference and a key compatibility.                            *)
(***************************************************************************)
MaxBpmDelta == 21       \* BPM differences of a call run over -MaxBpmDelta..MaxBpmDelta

\* the note names A..G with an optional sharp or flat, and a name that is none
KeyLetters == {"A", "B", "C", "D", "E", "F", "G"}
ValidKeys == KeyLetters \cup {"A#", "B#", "C#", "D#", "E#", "F#", "G#"}
                        \cup {"Ab", "Bb", "Cb", "Db", "Eb", "Fb", "Gb"}
KeyNames == ValidKeys \cup {"H"}
ScaleNames == {"major", "minor", ""}
KeyRatings == {"perfect", "compatible", "moderate", "clash", "unknown"}

KeyProbes ==
  { [NoProbe EXCEPT !.fn = "analyzeKeyCompatibility", !.sourceKey = sk,
                    !.sourceScale = ss, !.targetKey = tk, !.targetScale = ts]
      : sk \in KeyNames, ss \in ScaleNames, tk \in KeyNames, ts \in ScaleNames }

TypeProbes ==
  { [NoProbe EXCEPT !.fn = "determineTransitionType", !.bpmDifference = d,
                    !.keyCompatibility = kc]
      : d \in (-MaxBpmDelta)..MaxBpmDelta, kc \in KeyRatings }

\* the BPMs of a rated pair
BpmProbeValues == 100..(100 + MaxBpmDelta)

TempoProbes ==
  { [NoProbe EXCEPT !.fn = "tempoCompatibility", !.sourceBpm = a, !.targetBpm = b]
      : a \in BpmProbeValues, b \in BpmProbeValues }

AnalyzerInit ==
  /\ probe \in KeyProbes \cup TypeProbes \cup TempoProbes
  /\ verdict = "none"
  /\ rated = NoTempo
  /\ ServicesIdle
  /\ input = <<>>
  /\ order = <<>>
  /\ mix = NoMix
  /\ mTracks = <<>>
  /\ mTransitions = <<>>
  /\ broken = {}
  /\ ops = 0
  /\ InitFields(0)

AnalyzeKey ==
  /\ probe.fn = "analyzeKeyCompatibility"
  /\ verdict = "none"
  /\ verdict' = analyzeKeyCompatibility(probe.sourceKey, probe.sourceScale,
                                        probe.targetKey, probe.targetScale)
  /\ UNCHANGED <<serviceVars, probe, rated, planVars, mixerVars>>

\* lines 258-272 of findBestTransition
DetermineType ==
  /\ probe.fn = "determineTransitionType"
  /\ verdict = "none"
  /\ verdict' = determineTransitionType(BpmCompatibility(probe.bpmDifference),
                                        probe.keyCompatibility)
  /\ UNCHANGED <<serviceVars, probe, rated, planVars, mixerVars>>

\* lines 259-261 of findBestTransition on the pair of BPMs, and on the same
\* pair with source and target exchanged
RateTempo ==
  /\ probe.fn = "tempoCompatibility"
  /\ verdict = "none"
  /\ LET rate(source, target) ==
           [delta |-> BpmDifference(source, target),
            class |-> BpmCompatibility(BpmDifference(source, target))]
     IN rated' = [forward |-> rate(probe.sourceBpm, probe.targetBpm),
                  backward |-> rate(probe.targetBpm, probe.sourceBpm)]
  /\ verdict' = rated'.forward.class
  /\ UNCHANGED <<serviceVars, probe, planVars, mixerVars>>

AnalyzerNext == AnalyzeKey \/ DetermineType \/ RateTempo

AnalyzerSpec == AnalyzerInit /\ [][AnalyzerNext]_vars

(***************************************************************************)
(* Properties of the playback engine, checked under Spec.                  *)
(***************************************************************************)
Bands == {"low", "mid", "high"}

Rates == [i \in Idx |-> audio[i].rate]

PlayingTracks == {i \in Idx : Playing(i)}

SkipOps == {"NextTrack", "PreviousTrack", "Seek"}

TransitionTimerOps == {"EndTimer", "HalfTimer", "RampStep"}

ManualOps == {"AdjustEQ", "AdjustTempo", "ToggleBeatmatch"}

\* chain i alone is active: it plays at gain 1 and every other chain is at gain 0
OnlyChain(i) ==
  /\ Playing(i)
  /\ gain[i].value = 100
  /\ \A j \in Idx \ {i} : gain[j].value = 0

\* C2: a skip or a seek of the user while a transition is in flight, with the
\* transport playing and the stream of the track it leads to loaded, leaves
\* exactly that track's chain playing at gain 1 and every other chain at gain
\* 0; and the same holds when the end callback of that transition, the last
\* of the timers that were pending at the skip, has fired.
C2_SkipLeavesOneChain ==
  /\ (/\ lastOp.op \in SkipOps
      /\ lastOp.inflight
      /\ isPlaying
      /\ audio[currentTrackIndex].load = "ready")
     => OnlyChain(currentTrackIndex)
  /\ (/\ lastOp.op = "EndTimer"
      /\ lastOp.target # -1
      /\ isPlaying
      /\ audio[lastOp.target].load = "ready")
     => OnlyChain(lastOp.target)

\* C3: a timer of a transition that fires after a skip or a seek of the user
\* reached that transition (the end callback, the start of the tempo ramp, a
\* step of the tempo ramp) changes neither currentTrackIndex nor
\* isCrossfading nor any gain, EQ gain, playback rate or tempo ratio.
C3_NoAutomationAfterCancel ==
  [][(lastOp'.op \in TransitionTimerOps /\ lastOp'.target # -1)
       => /\ currentTrackIndex' = currentTrackIndex
          /\ isCrossfading' = isCrossfading
          /\ gain' = gain
          /\ eq' = eq
          /\ Rates' = Rates
          /\ tempoAdjustments' = tempoAdjustments]_vars

\* something is still due that moves the transport on from the current
\* track or loads it again: an auto-skip, or a retry or a stalledTimer of the
\* current track
RecoveryPending ==
  \E k \in 1..Len(timers) :
     \/ timers[k].kind = "skip"
     \/ timers[k].kind \in {"retry", "stalled"} /\ timers[k].idx = currentTrackIndex

\* C4: the transport never rests on a track whose stream has failed: while
\* it is playing, no transition is in flight and the load of the current
\* track has failed, a retry of it or the skip to the next track is due.
C4_FailedTrackIsSkipped ==
  (/\ isPlaying
   /\ ~InFlight
   /\ audio[currentTrackIndex].load = "failed")
  => RecoveryPending

\* C8: while no transition is in flight, at most one audio element plays.
C8_OneTrackOutsideTransitions ==
  ~InFlight => Cardinality(PlayingTracks) <= 1

\* C9: when the end callback of a transition that no skip or seek of the user
\* reached has run, the outgoing track is paused, its three EQ gains are 0,
\* its tempo ratio and playback rate are 1.0, its gain is 0,
\* currentTrackIndex is the outgoing index plus one, the incoming track, and
\* isCrossfading is false.
C9_TransitionEndResets ==
  (lastOp.op = "EndTimer" /\ lastOp.target = -1)
  => /\ audio[lastOp.idx].st = "paused"
     /\ \A b \in Bands : eq[lastOp.idx][b].value = 0
     /\ tempoAdjustments[lastOp.idx] = 1000
     /\ audio[lastOp.idx].rate = 1000
     /\ gain[lastOp.idx].value = 0
     /\ currentTrackIndex = lastOp.idx + 1
     /\ ~isCrossfading

\* the end callback of an undisturbed transition has just run and the
\* incoming track plays on at full gain
C9_Witness ==
  /\ lastOp.op = "EndTimer"
  /\ lastOp.target = -1
  /\ currentTrackIndex = lastOp.idx + 1
  /\ OnlyChain(currentTrackIndex)
  /\ ~isCrossfading

\* C10: a manual control (EQ slider, tempo slider, beatmatch toggle) never
\* changes the tracks or the transitions of the mix, changes no chain but the
\* current track's, and used while a transition is in flight changes no
\* gain, EQ gain, tempo ratio or playback rate at all.
C10_ManualControlsFrame ==
  [][lastOp'.op \in ManualOps
       => /\ mTracks' = mTracks
          /\ mTransitions' = mTransitions
          /\ \A i \in Idx \ {currentTrackIndex} :
               /\ gain'[i] = gain[i]
               /\ eq'[i] = eq[i]
               /\ tempoAdjustments'[i] = tempoAdjustments[i]
               /\ audio'[i].rate = audio[i].rate
          /\ lastOp'.inflight
             => /\ gain' = gain
                /\ eq' = eq
                /\ tempoAdjustments' = tempoAdjustments
                /\ Rates' = Rates]_vars

(***************************************************************************)
(* Properties of the transitions of the playback engine, checked under     *)
(* Spec.                                                                   *)
(***************************************************************************)
\* the transition out of the track at index i
TransitionFrom(i) == mTransitions[TransitionIndex(Track(i).id)]

\* this step starts a transition out of the current track
StartsTransition == ~isCrossfading /\ isCrossfading'

Incoming == (currentTrackIndex + 1) % N

\* the ramps to the values vs at the quarters 1, 2, ...
RampsTo(vs) == [q \in 1..Len(vs) |-> [dt |-> q, v |-> vs[q], kind |-> "ramp"]]

\* a gain that is v now and follows the ramps to vs
Curve(v, vs) == [value |-> v, events |-> RampsTo(vs)]

\* a gain that is v now and reaches w at the end of the transition
Line(v, w) == [value |-> v, events |-> <<[dt |-> 4, v |-> w, kind |-> "ramp"]>>]

\* C25: the gain curves laid out at the start of a transition follow its
\* type: beatmatch_blend and beatmatch_fade get the equal-power curve (the
\* outgoing gain along cos from 1 to 0, the incoming gain along sin from 0 to
\* 1), cut_eq the staged cut (incoming to 0.7 at the midpoint and 1 at the
\* end, outgoing held at 1 to the midpoint and then to 0), every other type
\* the linear ramp (outgoing 1 to 0, incoming 0 to 1).
C25_GainCurveByType ==
  [][StartsTransition =>
       LET type == TransitionFrom(currentTrackIndex).transitionType
           out == gain'[currentTrackIndex]
           in == gain'[Incoming]
       IN IF type \in {"beatmatch_blend", "beatmatch_fade"}
          THEN /\ out = Curve(100, <<92, 71, 38, 0>>)
               /\ in = Curve(0, <<38, 71, 92, 100>>)
          ELSE IF type = "cut_eq"
          THEN /\ out.events = <<[dt |-> 2, v |-> 100, kind |-> "set"],
                                 [dt |-> 4, v |-> 0, kind |-> "ramp"]>>
               /\ in = [value |-> 0,
                        events |-> <<[dt |-> 2, v |-> 70, kind |-> "ramp"],
                                     [dt |-> 4, v |-> 100, kind |-> "ramp"]>>]
          ELSE out = Line(100, 0) /\ in = Line(0, 100)]_vars

\* timer k is the end callback of a cut_eq transition of 8000 ms that no
\* skip or seek of the user has reached and whose outgoing track is still
\* the current one
CutEqRunning(k) ==
  /\ timers[k].kind = "end"
  /\ timers[k].target = -1
  /\ timers[k].idx = currentTrackIndex
  /\ TransitionFrom(timers[k].idx).transitionType = "cut_eq"
  /\ TransitionFrom(timers[k].idx).transitionDuration = 8000

\* C26: in a cut_eq transition of 8000 ms, when the audio clock reaches a
\* quarter of the duration: at 2000 ms the outgoing high band is at -12 dB;
\* at 4000 ms the outgoing mid band is at -9 dB and the incoming gain at 0.7;
\* at 6000 ms the outgoing low band is at -12 dB; at 8000 ms the outgoing
\* gain is 0 and the incoming gain 1; up to 4000 ms the outgoing gain is 1.
C26_CutEqSchedule ==
  \A k \in 1..Len(timers) :
    (CutEqRunning(k) /\ lastOp.op = "AudioTick") =>
      LET out == timers[k].idx
          in == timers[k].to
          quarter == timers[k].step
      IN /\ quarter = 1 => eq[out].high.value = -120
         /\ quarter = 2 => eq[out].mid.value = -90 /\ gain[in].value = 70
         /\ quarter = 3 => eq[out].low.value = -120
         /\ quarter = 4 => gain[out].value = 0 /\ gain[in].value = 100
         /\ quarter <= 2 => gain[out].value = 100

\* the clock of an undisturbed cut_eq transition has reached its midpoint:
\* the incoming track plays at 0.7 beside the outgoing one at 1, whose high
\* band is down
C26_Witness ==
  \E k \in 1..Len(timers) :
    /\ CutEqRunning(k)
    /\ lastOp.op = "AudioTick"
    /\ timers[k].step = 2
    /\ Playing(timers[k].idx)
    /\ Playing(timers[k].to)
    /\ gain[timers[k].to].value = 70
    /\ gain[timers[k].idx].value = 100
    /\ eq[timers[k].idx].high.value = -120
    /\ eq[timers[k].idx].mid.value = -90

\* the transition types that beat-match the two tracks
BeatmatchingTypes == {"beatmatch_blend", "beatmatch_fade"}

\* C27: with beatmatching on, the start of a transition changes the tempo
\* ratio of the incoming track only if the type of the transition implies
\* beatmatching and its BPM difference is above 2; the ratio then differs
\* from 1.0 and, where the transition carries both BPMs, is the outgoing BPM
\* over the incoming BPM.  At the start of every other transition the
\* incoming track's ratio and playback rate stay as they were.
C27_TempoRatioAtStart ==
  [][(StartsTransition /\ beatmatchingEnabled) =>
       LET t == TransitionFrom(currentTrackIndex)
           in == Incoming
       IN IF t.transitionType \in BeatmatchingTypes /\ Abs(t.bpmDifference) > 2
          THEN /\ tempoAdjustments'[in] # 1000
               /\ (t.sourceBpm # 0 /\ t.targetBpm # 0) =>
                     tempoAdjustments'[in] = (1000 * t.sourceBpm) \div t.targetBpm
          ELSE /\ tempoAdjustments'[in] = tempoAdjustments[in]
               /\ audio'[in].rate = audio[in].rate]_vars

\* no timer of a transition is pending in the timers ts
TransitionTimersFired(ts) ==
  \A k \in 1..Len(ts) : ts[k].kind \notin TransitionTimerKinds

\* the transition t carries two BPMs that prepareBeatsyncTransition matches
CarriesBpms(t) ==
  /\ t.sourceBpm # 0
  /\ t.targetBpm # 0
  /\ Abs(t.targetBpm - t.sourceBpm) > 2

\* the end callback of a transition out of the current track is pending and
\* no skip or seek of the user has reached it
TransitionRunning ==
  /\ isCrossfading
  /\ TransitionIndex(Track(currentTrackIndex).id) # 0
  /\ \E k \in 1..Len(timers) :
        /\ timers[k].kind = "end"
        /\ timers[k].target = -1
        /\ timers[k].idx = currentTrackIndex

\* the transition running is a beatmatched one
BeatmatchedRunning ==
  TransitionRunning /\ CarriesBpms(TransitionFrom(currentTrackIndex))

\* C28: the step that ends a beatmatched transition and leaves none of its
\* timers pending, be the tenth step of the tempo ramp run before the end
\* callback or after it, makes the incoming track the current one with the
\* tempo ratio and the playback rate exactly 1.0.
C28_TempoBackToOne ==
  [][(BeatmatchedRunning /\ ~isCrossfading' /\ TransitionTimersFired(timers')) =>
       /\ currentTrackIndex' = Incoming
       /\ tempoAdjustments'[currentTrackIndex'] = 1000
       /\ audio'[currentTrackIndex'].rate = 1000]_vars

\* a beatmatched transition (beatmatching on from the start: the click that
\* started it is the one thing the user did) has ended with its ramp run
C28_Witness ==
  /\ lastOp.op = "EndTimer"
  /\ lastOp.target = -1
  /\ ops = 1
  /\ beatmatchingEnabled
  /\ TransitionFrom(lastOp.idx).sourceBpm = 120
  /\ TransitionFrom(lastOp.idx).targetBpm = 126
  /\ ~isCrossfading
  /\ TransitionTimersFired(timers)
  /\ currentTrackIndex = (lastOp.idx + 1) % N
  /\ tempoAdjustments[currentTrackIndex] = 1000
  /\ audio[currentTrackIndex].rate = 1000

\* C29: the harmonic EQ adjustment of the incoming track lasts for the
\* transition only: the step that ends a transition rated clash, compatible
\* or perfect and leaves none of its timers pending has the mid band and the
\* high band of the incoming track, which is now the current one, at 0 dB.
\* (The user's EQ controls act on the current track, which until this step
\* is the outgoing one.)
C29_HarmonicEqForTransitionOnly ==
  [][(/\ TransitionRunning
      /\ TransitionFrom(currentTrackIndex).keyCompatibility
            \in {"clash", "compatible", "perfect"}
      /\ ~isCrossfading'
      /\ TransitionTimersFired(timers')) =>
       /\ currentTrackIndex' = Incoming
       /\ eq'[Incoming].mid.value = 0
       /\ eq'[Incoming].high.value = 0]_vars

KeyAnalyzed == probe.fn = "analyzeKeyCompatibility" /\ verdict # "none"

TypeDetermined == probe.fn = "determineTransitionType" /\ verdict # "none"

\* the wheel position of the source and of the target key of the call
SourcePos == CamelotHour(probe.sourceKey, probe.sourceScale)
TargetPos == CamelotHour(probe.targetKey, probe.targetScale)

\* the tempo class of a BPM difference
TempoClass(delta) ==
  IF Abs(delta) < 10 THEN "Good" ELSE IF Abs(delta) < 20 THEN "Moderate" ELSE "Challenging"

\* C13: determineTransitionType follows the decision table, first match
\* wins: Good and perfect give beatmatch_blend; else Good gives
\* beatmatch_fade; else perfect or compatible gives harmonic_fade; else
\* Moderate and not clash gives tempo_adjust; otherwise cut_eq.
C13_TypeByDecisionTable ==
  TypeDetermined =>
    LET tempo == TempoClass(probe.bpmDifference)
        key == probe.keyCompatibility
    IN /\ (tempo = "Good" /\ key = "perfect") => verdict = "beatmatch_blend"
       /\ (tempo = "Good" /\ key # "perfect") => verdict = "beatmatch_fade"
       /\ (tempo # "Good" /\ key \in {"perfect", "compatible"}) => verdict = "harmonic_fade"
       /\ (tempo = "Moderate" /\ key \in {"moderate", "unknown"}) => verdict = "tempo_adjust"
       /\ (tempo = "Moderate" /\ key = "clash") => verdict = "cut_eq"
       /\ (tempo = "Challenging" /\ key \in {"moderate", "clash", "unknown"})
            => verdict = "cut_eq"

\* a moderate BPM difference with an unknown key compatibility was rated
\* tempo_adjust
C13_Witness ==
  /\ TypeDetermined
  /\ TempoClass(probe.bpmDifference) = "Moderate"
  /\ probe.keyCompatibility = "unknown"
  /\ verdict = "tempo_adjust"

\* C17: analyzeKeyCompatibility returns a rating for every pair of keys and
\* never raises: unknown when one of the two keys is not on the wheel, and
\* perfect, compatible, moderate or clash when both are.
C17_KeyCompatibilityTotal ==
  KeyAnalyzed =>
    /\ verdict \in KeyRatings
    /\ (SourcePos = 0 \/ TargetPos = 0) => verdict = "unknown"
    /\ (SourcePos # 0 /\ TargetPos # 0) => verdict \in KeyRatings \ {"unknown"}

\* C18: a key A..G with an optional sharp or flat, in major or in minor, is
\* rated perfect against itself.
C18_KeyCompatibilityReflexive ==
  (/\ KeyAnalyzed
   /\ probe.sourceKey \in ValidKeys
   /\ probe.sourceScale \in {"major", "minor"}
   /\ probe.targetKey = probe.sourceKey
   /\ probe.targetScale = probe.sourceScale)
  => verdict = "perfect"

\* C19: two keys at the same wheel position, one major and one minor, are
\* rated compatible, whichever of them is the source.
C19_RelativeKeysCompatible ==
  (/\ KeyAnalyzed
   /\ SourcePos # 0
   /\ SourcePos = TargetPos
   /\ probe.sourceScale # probe.targetScale)
  => verdict = "compatible"

\* the position k steps clockwise of position p on the wheel 1..12
Clockwise(p, k) == ((p - 1 + k) % 12) + 1

\* C20: two keys of the same mode whose wheel positions are 7 apart, counted
\* around the wheel in either direction, are rated compatible.
C20_FifthsCompatible ==
  (/\ KeyAnalyzed
   /\ SourcePos # 0
   /\ TargetPos # 0
   /\ probe.sourceScale = probe.targetScale
   /\ \/ TargetPos = Clockwise(SourcePos, 7)
      \/ SourcePos = Clockwise(TargetPos, 7))
  => verdict = "compatible"

\* both keys of the call are on the wheel
BothMapped == SourcePos # 0 /\ TargetPos # 0

SameMode == probe.sourceScale = probe.targetScale

\* the classes of the wheel: the same position and mode; a neighbouring
\* position or a position 7 steps away in the same mode, or the same position
\* in the other mode; the position opposite on the wheel
WheelPerfect == SourcePos = TargetPos /\ SameMode

WheelCompatible ==
  \/ /\ SameMode
     /\ \E k \in {1, 7} : \/ TargetPos = Clockwise(SourcePos, k)
                          \/ SourcePos = Clockwise(TargetPos, k)
  \/ ~SameMode /\ SourcePos = TargetPos

WheelOpposite == TargetPos = Clockwise(SourcePos, 6)

\* C21: two keys on the wheel whose positions are 6 apart are rated clash,
\* and two keys on the wheel that are neither the same, nor compatible
\* (neighbours or 7 apart in the same mode, the same position in the other
\* mode), nor 6 apart are rated moderate.
C21_ClashAndModerate ==
  (KeyAnalyzed /\ BothMapped) =>
    /\ WheelOpposite => verdict = "clash"
    /\ (~WheelPerfect /\ ~WheelCompatible /\ ~WheelOpposite) => verdict = "moderate"

TempoRated == probe.fn = "tempoCompatibility" /\ verdict # "none"

\* C22: the BPM difference of a pair is the negation of the difference of
\* the exchanged pair, the rating is good below 10, moderate below 20 and
\* challenging from 20 on in absolute value, and it is the same in both
\* orders.
C22_TempoCompatibilitySymmetric ==
  TempoRated =>
    /\ rated.forward.delta = -rated.backward.delta
    /\ rated.forward.class = rated.backward.class
    /\ rated.forward.class =
         (IF Abs(probe.targetBpm - probe.sourceBpm) < 10 THEN "good"
          ELSE IF Abs(probe.targetBpm - probe.sourceBpm) < 20 THEN "moderate"
          ELSE "challenging")

\* a pair 12 BPM apart was rated moderate in both orders
C22_Witness ==
  /\ TempoRated
  /\ rated.forward.delta = 12
  /\ rated.backward.delta = -12
  /\ rated.forward.class = "moderate"
  /\ rated.backward.class = "moderate"

(***************************************************************************)
(* Further properties of the planner, checked under PlanSpec.              *)
(***************************************************************************)
\* the duration the BPM difference d of a pair calls for
DurationFor(d) == IF Abs(d) < 5 THEN 6000 ELSE IF Abs(d) > 15 THEN 12000 ELSE 8000

\* the track was analysed with key k, scale s and rhythm BPM b
AnalysedAs(t, k, s, b) ==
  t.adv.present /\ t.adv.rhythm /\ t.adv.key = k /\ t.adv.scale = s /\ t.adv.rbpm = b

\* C14: the duration of every transition of a plan is 6000 ms when the BPM
\* difference of its pair is below 5, 12000 ms when it is above 15 and 8000
\* ms otherwise, with or without advanced analysis; and a pair in the same
\* key and mode with BPM 128 and 129 gets beatmatch_blend with 6000 ms.
C14_DurationByBpmDelta ==
  mix.status = "ok" =>
    \A k \in 1..Len(mix.transitions) :
      LET t == mix.transitions[k]
          a == mix.tracks[k]
          b == mix.tracks[k + 1]
      IN /\ t.transitionDuration = DurationFor(t.bpmDifference)
         /\ (\E key \in ValidKeys, scale \in {"major", "minor"} :
               \/ AnalysedAs(a, key, scale, 128) /\ AnalysedAs(b, key, scale, 129)
               \/ AnalysedAs(a, key, scale, 129) /\ AnalysedAs(b, key, scale, 128))
            => t.transitionType = "beatmatch_blend" /\ t.transitionDuration = 6000

\* the input of Scenario A: ids 1, 2, 3 with BPM 120, 122, 180, no key data
ScenarioA ==
  /\ Len(input) = 3
  /\ \A k \in 1..3 : ~input[k].adv.present
  /\ input[1].bpm = 120
  /\ input[2].bpm = 122
  /\ input[3].bpm = 180

\* C15: the plan of Scenario A has the order 1, 2, 3 or 2, 1, 3; its first
\* transition (the pair 120/122) is a beatmatch transition (the fallback
\* branch names it "beatmatch") and its second (to the track of 180 BPM) is
\* cut_eq.
C15_ScenarioA ==
  (ScenarioA /\ Planned) =>
    /\ mix.status = "ok"
    /\ [k \in 1..3 |-> mix.tracks[k].id] \in {<<1, 2, 3>>, <<2, 1, 3>>}
    /\ mix.transitions[1].transitionType
         \in {"beatmatch_fade", "beatmatch_blend", "beatmatch"}
    /\ mix.transitions[2].transitionType = "cut_eq"

\* the analysis of the track holds beat positions
HasBeats(t) == t.adv.present /\ t.adv.rhythm /\ t.adv.nbeats > 0

\* the indexes of the last third of the track's beats that are multiples of 16
PhraseBeatsInLastThird(t) ==
  {i \in 0..(t.adv.nbeats - 1) : 3 * i >= 2 * t.adv.nbeats /\ i % 16 = 0}

\* C16: the transition point of a pair whose tracks both have beat
\* positions is the position of the first beat of the outgoing track's last
\* third whose index is a multiple of 16; without beat positions, or without
\* such a beat, it is 80% of the outgoing track's duration.
C16_TransitionPointSelection ==
  mix.status = "ok" =>
    \A k \in 1..Len(mix.transitions) :
      LET a == mix.tracks[k]
          b == mix.tracks[k + 1]
          phrase == PhraseBeatsInLastThird(a)
      IN a.duration # 0 =>
           mix.transitions[k].transitionPoint =
             IF HasBeats(a) /\ HasBeats(b) /\ phrase # {}
             THEN BeatAt(a.adv, CHOOSE i \in phrase : \A j \in phrase : i <= j)
             ELSE (a.duration * 8) \div 10

\* the analysis of the track holds a key and a scale
HasKeyData(t) == t.adv.present /\ t.adv.rhythm /\ t.adv.key # "" /\ t.adv.scale # ""

KeyedCount == Cardinality({k \in 1..Len(input) : HasKeyData(input[k])})

Ids(s) == [k \in 1..Len(s) |-> s[k].id]

\* the combination of the energy-arc and the tempo-greedy votes alone
OrderWithoutHarmonic ==
  LET tracks == [k \in 1..Len(input) |-> ScoredTrack(input[k])]
      placed == PlaceLoop(tracks, createEnergyCurve(tracks), minimizeBpmJumps(tracks),
                          tracks, FALSE, 1, <<>>)
  IN placed \o SelectSeq(tracks, LAMBDA t : t.id \notin UsedIds(placed))

\* C23: when fewer than half of the tracks of a set of 3 or more have key
\* data, the harmonic-greedy ordering has no vote: the final order is the one
\* the energy-arc vote (5) and the tempo-greedy vote (10) give alone.
C23_HarmonicVoteNeedsKeyData ==
  (Planned /\ Len(input) >= 3 /\ 2 * KeyedCount < Len(input))
  => Ids(order) = Ids(OrderWithoutHarmonic)

\* the three orderings of the input as calculateMixOrder obtains them, and
\* whether the harmonic-greedy one is used
Scored == [k \in 1..Len(input) |-> ScoredTrack(input[k])]
EnergyArc == createEnergyCurve(Scored)
TempoGreedy == minimizeBpmJumps(Scored)
HarmonicGreedy == harmonicMixing(Scored)
HarmonicUsed == \E k \in 1..Len(input) : input[k].adv.present

\* the votes for the track `id` at position p under the orderings ea, tg
\* and hg
VotesIn(ea, tg, hg, id, p) ==
  (IF ea[p].id = id THEN 5 ELSE 0)
    + (IF tg[p].id = id THEN 10 ELSE 0)
    + (IF HarmonicUsed /\ hg[p].id = id THEN 8 ELSE 0)

Votes(id, p) == VotesIn(EnergyArc, TempoGreedy, HarmonicGreedy, id, p)

\* the ids not placed before position p (the id of input track k is k)
FreeAt(p) == {input[k].id : k \in 1..Len(input)} \ {order[q].id : q \in 1..(p - 1)}

\* C24: for 3 or more tracks, every position of the final order, from left
\* to right, holds the track not yet used with the most votes at that
\* position (5 from the energy-arc ordering, 10 from the tempo-greedy one, 8
\* from the harmonic-greedy one when it is used), and of several such tracks
\* the one that comes first in the input.
C24_WeightedVoteCombination ==
  (Planned /\ Len(input) >= 3) =>
    /\ Len(order) = Len(input)
    /\ \A ea \in {EnergyArc}, tg \in {TempoGreedy}, hg \in {HarmonicGreedy} :
         \A p \in 1..Len(order) :
           /\ order[p].id \in FreeAt(p)
           /\ \A j \in FreeAt(p) :
                \/ VotesIn(ea, tg, hg, j, p) < VotesIn(ea, tg, hg, order[p].id, p)
                \/ /\ VotesIn(ea, tg, hg, j, p) = VotesIn(ea, tg, hg, order[p].id, p)
                   /\ order[p].id <= j

\* four tracks with the harmonic vote in use, placed in another order than
\* the input's: one position was decided by the votes against a track that
\* had votes there too, and at another one two unused tracks had the same
\* votes and the one that is earlier in the input was taken
C24_Witness ==
  /\ Planned
  /\ Len(input) = 4
  /\ HarmonicUsed
  /\ Ids(order) # <<1, 2, 3, 4>>
  /\ \E p \in 1..4 : \E j \in FreeAt(p) :
        0 < Votes(j, p) /\ Votes(j, p) < Votes(order[p].id, p)
  /\ \E p \in 1..4 : \E j \in FreeAt(p) :
        j > order[p].id /\ Votes(j, p) = Votes(order[p].id, p)

(***************************************************************************)
(* Properties of the stream failure handling: C11 under FailSpec, C12      *)
(* under Spec.                                                             *)
(***************************************************************************)
RetryPending(i) ==
  \E k \in 1..Len(timers) : timers[k].kind = "retry" /\ timers[k].idx = i

\* the load of every track has failed after its last retry
AllTracksFailed ==
  \A i \in Idx : /\ audio[i].load = "failed"
                 /\ retries[i] >= MAX_AUDIO_RETRIES
                 /\ ~RetryPending(i)

\* C11: when every track of the mix has failed with its retries exhausted
\* and nothing is scheduled any more, the engine is not playing.
C11_AllFailedGoesIdle ==
  (AllTracksFailed /\ timers = <<>>) => ~isPlaying

\* C12: no track is reloaded more than 3 times: its retry counter never
\* exceeds 3, the pending reloads of a track are distinct retries k in 1..3
\* that the counter has reached, and the k-th is scheduled with a delay of
\* 1000 * 2^(k-1) ms (1000, 2000, 4000).
C12_RetriesCappedWithBackoff ==
  /\ \A i \in Idx : retries[i] <= 3
  /\ \A k \in 1..Len(timers) :
       timers[k].kind = "retry" =>
         /\ timers[k].step \in 1..3
         /\ timers[k].step <= retries[timers[k].idx]
         /\ timers[k].delay = (CASE timers[k].step = 1 -> 1000
                                 [] timers[k].step = 2 -> 2000
                                 [] OTHER -> 4000)
         /\ \A j \in 1..Len(timers) :
              (/\ j # k
               /\ timers[j].kind = "retry"
               /\ timers[j].idx = timers[k].idx)
              => timers[j].step # timers[k].step

\* a track has failed again after its third reload and no further reload of
\* it is scheduled
C12_Witness ==
  \E i \in Idx : /\ retries[i] = 3
                 /\ audio[i].load = "failed"
                 /\ ~RetryPending(i)
                 /\ lastOp.op = "ErrorEvent"

(***************************************************************************)
(* Properties of the planner under failed analyses, checked under          *)
(* PlanSpec.  A track whose analysis failed or was unavailable comes out   *)
(* of analyzeTracks without advancedAnalysis (NoAdv).                      *)
(***************************************************************************)
\* C31: whatever subset of the tracks has no analysis, and whatever the key
\* and tempo scoring meets, the planning run completes: it ends with a mix,
\* never with an error, and the mix holds every track of the input once.
C31_AnalysisFailureNotFatal ==
  Planned =>
    /\ mix.status = "ok"
    /\ Len(mix.tracks) = Len(input)
    /\ \A k \in 1..Len(input) : OccurrencesOf(input[k].id, mix.tracks) = 1

\* the track has no energy-band data (upload-routes.js:706)
NoEnergyBands(t) == ~(t.adv.present /\ t.adv.rhythm /\ Len(t.adv.energy) > 0)

\* C34: the energy score that calculateMixOrder gives a track without
\* energy-band data is the bucket (2, 4, 6, 8, 10) of the BPM the track is
\* planned with, an undetected BPM counting as 120.
C34_EnergyFromPlanningBpm ==
  \A k \in 1..Len(input) :
    NoEnergyBands(input[k]) =>
      ScoredTrack(input[k]).energy = BpmBucket(ScoredTrack(input[k]).bpm)

(***************************************************************************)
(* Properties of the transport of the playback engine, checked under Spec. *)
(***************************************************************************)

\* C36: whenever isPlaying is false, no audio element is playing; a pause
\* during a transition, with the incoming track started, is included.
C36_PausedMeansSilent ==
  ~isPlaying => PlayingTracks = {}

\* C38: the delayed skip that follows the last failed reload of a track
\* leaves that track and no other: when its timer fires, the current
\* track is the failed one, also after a next or previous of the user in
\* the second between the failure and the skip.
C38_AutoSkipLeavesFailedTrack ==
  [][lastOp'.op = "SkipTimer" => currentTrackIndex = lastOp'.idx]_vars

(***************************************************************************)
(* The playback engine across mixes: one AudioMixer that is initialised    *)
(* again while it is in use (initializeMixPlayer of the README calls       *)
(* mixer.initialize(mixData) on the mixer it already has).  The streams    *)
(* are healthy, and the mixes are plans of tracks with equal BPM, whose    *)
(* transitions set no timer but the end callback.                          *)
(***************************************************************************)
\* the transition generateTransitionPoints makes for two tracks without
\* analysis and with the same BPM
PlainStyle ==
  [transitionType |-> "beatmatch", transitionDuration |-> 6000, bpmDifference |-> 0,
   keyCompatibility |-> "", sourceBpm |-> 0, targetBpm |-> 0]

\* the end callbacks that are scheduled
EndTimers == {k \in 1..Len(timers) : timers[k].kind = "end"}

\* initialize(mixData) with a mix of n tracks: stop(), the new tracks and
\* transitions, currentTrackIndex = 0, createAudioElements().  stop() clears
\* isPlaying and isCrossfading and pauses the elements, which
\* createAudioElements then replaces; neither clears a timer.
Initialize(n) ==
  /\ ops + 1 <= MaxUserOps
  /\ ops' = ops + 1
  /\ mTracks' = MixData(n, PlainStyle).tracks
  /\ mTransitions' = MixData(n, PlainStyle).transitions
  /\ currentTrackIndex' = 0
  /\ isPlaying' = FALSE
  /\ isCrossfading' = FALSE
  /\ audio' = [i \in 0..(n - 1) |->
                 [st |-> "paused", pos |-> 0, rate |-> 1000, load |-> "loading"]]
  /\ gain' = [i \in 0..(n - 1) |-> Param(IF i = 0 THEN 100 ELSE 0)]
  /\ eq' = [i \in 0..(n - 1) |-> [low |-> Param(0), mid |-> Param(0), high |-> Param(0)]]
  /\ tempoAdjustments' = [i \in 0..(n - 1) |-> 1000]
  /\ retries' = [i \in 0..(n - 1) |-> 0]
  /\ timers' = timers
  /\ lastOp' = Op("Initialize", currentTrackIndex)
  /\ UNCHANGED <<serviceVars, planVars, probeVars, broken, beatmatchingEnabled>>

\* a quarter of the transition's duration passes, for the timers and for the
\* clock of the AudioContext; an end callback that is due runs first
ClockTick ==
  /\ EndTimers # {}
  /\ \A k \in EndTimers : timers[k].step < 4
  /\ EngineStep([Fields EXCEPT
                   !.timers = [k \in 1..Len(timers) |->
                                 IF timers[k].kind = "end"
                                 THEN [timers[k] EXCEPT !.step = @ + 1]
                                 ELSE timers[k]],
                   !.gain = [i \in Idx |-> ParamTick(gain[i])],
                   !.eq = [i \in Idx |-> [low |-> ParamTick(eq[i].low),
                                          mid |-> ParamTick(eq[i].mid),
                                          high |-> ParamTick(eq[i].high)]]],
                EventOp("ClockTick"))

SessionInit ==
  /\ probe = NoProbe
  /\ verdict = "none"
  /\ rated = NoTempo
  /\ ServicesIdle
  /\ input = <<>>
  /\ order = <<>>
  /\ mix = NoMix
  /\ \E n \in MixLengths :
       /\ mTracks = MixData(n, PlainStyle).tracks
       /\ mTransitions = MixData(n, PlainStyle).transitions
       /\ InitFields(n)
  /\ broken = {}
  /\ ops = 0

\* the current index names a track; with any other index the handlers throw
\* on audioElements[currentTrackIndex], and the session is not followed
\* further
IndexValid == currentTrackIndex \in Idx

SessionNext ==
  \/ IndexValid /\ TogglePlayPause
  \/ IndexValid /\ NextTrack
  \/ IndexValid /\ PreviousTrack
  \/ IndexValid /\ \E p \in 0..(TrackLen - 1) : Seek(p)
  \/ IndexValid /\ \E n \in MixLengths : Initialize(n)
  \/ IndexValid /\ \E i \in Idx : Advance(i)
  \/ IndexValid /\ \E i \in Idx : Ended(i)
  \/ IndexValid /\ \E i \in Idx : LoadOk(i)
  \/ IndexValid /\ ClockTick
  \/ IndexValid /\ \E k \in 1..Len(timers) : EndTimer(k)

SessionSpec == SessionInit /\ [][SessionNext]_vars

(***************************************************************************)
(* Properties of the playback engine across mixes, checked under           *)
(* SessionSpec.                                                            *)
(***************************************************************************)

\* C35: after any interleaving of initialize (a new, shorter mix included),
\* play, pause, next, previous, the start of a transition and the timer
\* callbacks of earlier transitions, currentTrackIndex names a track of the
\* mix: 0 <= currentTrackIndex < number of tracks.
C35_CurrentIndexInRange ==
  currentTrackIndex \in Idx

\* C37: at most one transition is in flight: no state has the end callbacks
\* of two transitions scheduled, also after initialize (with its stop) or a
\* skip during the earlier transition.
C37_OneTransitionInFlight ==
  Cardinality(EndTimers) <= 1

\* the current track plays alone and has a transition planned
PlaysAloneWithPlan ==
  /\ currentTrackIndex \in Idx
  /\ PlayingTracks = {currentTrackIndex}
  /\ Sounding(audio[currentTrackIndex])
  /\ TransitionIndex(Track(currentTrackIndex).id) # 0

\* C33: a tick of the current track at or after its transition point, with
\* no transition in flight, starts the transition of that track: the step
\* sets isCrossfading and schedules the end callback.
C33_TickPastPointStarts ==
  [][(/\ lastOp'.op \in {"Advance", "Ended"}
      /\ PlaysAloneWithPlan
      /\ ~InFlight
      /\ audio[currentTrackIndex].pos + 1 >=
           mTransitions[TransitionIndex(Track(currentTrackIndex).id)].transitionPoint)
     => (isCrossfading' /\ Cardinality(EndTimers') = 1)]_vars

(***************************************************************************)
(* The playback engine left to itself: after play() the user does nothing  *)
(* more and every stream loads.  The elements, the clock of the            *)
(* AudioContext and the timers each keep running, which the fairness       *)
(* conditions say: playback of an element that plays goes on, a stream     *)
(* that loads arrives, time passes, and a timer that is due fires.  The    *)
(* planned transition point of a track is its usual one or a value no tick *)
(* ever matches (NaN).                                                     *)
(***************************************************************************)
TransitionPointValues == {TransitionPointPos, NaN}

LiveInit ==
  /\ probe = NoProbe
  /\ verdict = "none"
  /\ rated = NoTempo
  /\ ServicesIdle
  /\ input = <<>>
  /\ order = <<>>
  /\ mix = NoMix
  /\ \E n \in MixLengths : \E style \in StylesOf(n) :
       \E tp \in [1..(n - 1) -> TransitionPointValues] :
         /\ mTracks = MixData(n, style).tracks
         /\ mTransitions = [k \in 1..(n - 1) |->
                              [MixData(n, style).transitions[k]
                                 EXCEPT !.transitionPoint = tp[k]]]
         /\ InitFields(n)
  /\ broken = {}
  /\ ops = 0

\* mixer.play() of initializeMixPlayer
Play == ~isPlaying /\ TogglePlayPause

LiveNext ==
  \/ Play
  \/ \E i \in Idx : Advance(i)
  \/ \E i \in Idx : Ended(i)
  \/ \E i \in Idx : LoadOk(i)
  \/ AudioTick
  \/ \E k \in 1..Len(timers) : EndTimer(k)
  \/ \E k \in 1..Len(timers) : HalfTimer(k)
  \/ \E k \in 1..Len(timers) : RampStep(k)

LiveFairness ==
  /\ \A i \in MixIndexes :
       /\ WF_vars(i \in Idx /\ Advance(i))
       /\ WF_vars(i \in Idx /\ Ended(i))
       /\ WF_vars(i \in Idx /\ LoadOk(i))
  /\ WF_vars(AudioTick)
  /\ WF_vars(\E k \in 1..Len(timers) : EndTimer(k))
  /\ WF_vars(\E k \in 1..Len(timers) : HalfTimer(k))
  /\ WF_vars(\E k \in 1..Len(timers) : RampStep(k))

LiveSpec == LiveInit /\ [][LiveNext]_vars /\ LiveFairness

(***************************************************************************)
(* Properties of the playback engine left to itself, checked under         *)
(* LiveSpec.                                                               *)
(***************************************************************************)

\* C39: with no user input and no stream failure, once the mix plays every
\* track becomes current in plan order: while track i is current and is not
\* the last one, track i + 1 eventually becomes current, by the transition
\* of track i or by its 'ended' listener, whatever the transition points.
C39_EveryTrackBecomesCurrent ==
  \A i \in MixIndexes :
    (isPlaying /\ currentTrackIndex = i /\ i + 1 < N) ~> (currentTrackIndex = i + 1)

(***************************************************************************)
(* The route POST /save-mix of the user routes (upload-routes.js:390-432), *)
(* for one signed-in user.  The handler is asynchronous: it gives way at   *)
(* each await, so that the handlers of several requests of the same user   *)
(* interleave between User.findByPk, SavedMix.count, SavedMix.create and   *)
(* user.save.  A request is                                                *)
(*   pc        "new" before it is received, then "found", "counted",       *)
(*             "created", and its status code once it is answered          *)
(*   mixCount  what SavedMix.count returned to this handler                *)
(*   user      the mixCount of the User instance this handler loaded       *)
(***************************************************************************)
MaxRequests == 2
FreeMixLimit == 5

NewRequest == [pc |-> "new", mixCount |-> 0, user |-> 0]

\* the request is received: the body is checked and the user is loaded
ReceiveSaveMix(r, validBody) ==
  /\ account.requests[r].pc = "new"
  /\ account' = [account EXCEPT
                   !.requests[r] = IF validBody
                                   THEN [@ EXCEPT !.pc = "found", !.user = account.mixCount]
                                   ELSE [@ EXCEPT !.pc = "400"]]

\* const mixCount = await SavedMix.count({ where: { UserId: user.id } })
CountSavedMixes(r) ==
  /\ account.requests[r].pc = "found"
  /\ account' = [account EXCEPT !.requests[r] = [@ EXCEPT !.pc = "counted",
                                                          !.mixCount = account.rows]]

\* the limit of the free tier, then SavedMix.create
CreateSavedMix(r) ==
  /\ account.requests[r].pc = "counted"
  /\ IF ~account.isPremium /\ account.requests[r].mixCount >= FreeMixLimit
     THEN account' = [account EXCEPT !.requests[r].pc = "403"]
     ELSE account' = [account EXCEPT !.rows = @ + 1, !.requests[r].pc = "created"]

\* user.mixCount += 1; await user.save(); 201
SaveUser(r) ==
  /\ account.requests[r].pc = "created"
  /\ account' = [account EXCEPT !.mixCount = account.requests[r].user + 1,
                                !.requests[r].pc = "201"]

\* a user of either tier; a free user has at most FreeMixLimit mixes
SaveInit ==
  /\ probe = NoProbe
  /\ verdict = "none"
  /\ rated = NoTempo
  /\ input = <<>>
  /\ order = <<>>
  /\ mix = NoMix
  /\ mTracks = <<>>
  /\ mTransitions = <<>>
  /\ broken = {}
  /\ ops = 0
  /\ InitFields(0)
  /\ lyrics = NoLyrics
  /\ \E premium \in BOOLEAN, rows \in 0..FreeMixLimit :
       account = [isPremium |-> premium, rows |-> rows, mixCount |-> rows,
                  requests |-> [r \in 1..MaxRequests |-> NewRequest]]

SaveStep(A) == A /\ UNCHANGED <<planVars, mixerVars, probeVars, lyrics>>

SaveNext ==
  \/ \E r \in 1..MaxRequests, validBody \in BOOLEAN : SaveStep(ReceiveSaveMix(r, validBody))
  \/ \E r \in 1..MaxRequests : SaveStep(CountSavedMixes(r))
  \/ \E r \in 1..MaxRequests : SaveStep(CreateSavedMix(r))
  \/ \E r \in 1..MaxRequests : SaveStep(SaveUser(r))

SaveSpec == SaveInit /\ [][SaveNext]_vars

(***************************************************************************)
(* Properties of POST /save-mix, checked under SaveSpec.                   *)
(***************************************************************************)

\* C32: a user who is not premium never has more than 5 SavedMix rows,
\* also after save-mix requests that were handled concurrently.
C32_FreeTierLimit ==
  ~account.isPremium => account.rows <= FreeMixLimit

(***************************************************************************)
(* The generation queue of LyricsBufferService (src/src/index.js), for the *)
(* buffer of one track.  A state L is the record `lyrics`:                 *)
(*   segments          per index (from 0, kept in a sequence) the flags    *)
(*                     generated, inQueue and error of the segment         *)
(*   currentSegment    bufferData.currentSegment                           *)
(*   generationQueue   the segment indexes of this.generationQueue         *)
(*   isProcessingQueue this.isProcessingQueue                              *)
(*   generating        the segments whose generateVideoForSegment call has *)
(*                     been made and has not returned                      *)
(***************************************************************************)
MaxSegments == 4
LOOKAHEAD_SEGMENTS == 3
MAX_CONCURRENT_GENERATIONS == 2

FreshSegment == [generated |-> FALSE, inQueue |-> FALSE, error |-> FALSE]

\* the first k elements of a sequence, and the rest: splice(0, k)
Take(s, k) == SubSeq(s, 1, Min(k, Len(s)))
Drop(s, k) == SubSeq(s, Min(k, Len(s)) + 1, Len(s))

\* processGenerationQueue up to its await: the queue's first items are
\* handed to generateVideoForSegment
processGenerationQueue(L) ==
  IF L.isProcessingQueue \/ Len(L.generationQueue) = 0 THEN L
  ELSE LET itemsToProcess == Take(L.generationQueue, MAX_CONCURRENT_GENERATIONS)
       IN [L EXCEPT !.isProcessingQueue = TRUE,
                    !.generationQueue = Drop(@, MAX_CONCURRENT_GENERATIONS),
                    !.generating = @ \cup {itemsToProcess[k] : k \in 1..Len(itemsToProcess)}]

\* the loop of preGenerateSegments from segment i on
RECURSIVE QueueFrom(_, _, _)
QueueFrom(L, i, endIndex) ==
  IF i >= endIndex THEN L
  ELSE IF L.segments[i + 1].generated \/ L.segments[i + 1].inQueue
  THEN QueueFrom(L, i + 1, endIndex)
  ELSE QueueFrom([L EXCEPT !.segments[i + 1].inQueue = TRUE,
                           !.generationQueue = Append(@, i)],
                 i + 1, endIndex)

preGenerateSegments(L, currentIndex) ==
  IF Len(L.segments) = 0 THEN L
  ELSE LET endIndex == Min(currentIndex + LOOKAHEAD_SEGMENTS, Len(L.segments))
           L1 == QueueFrom(L, currentIndex, endIndex)
       IN IF ~L1.isProcessingQueue THEN processGenerationQueue(L1) ELSE L1

\* what follows the await of processGenerationQueue once every call of the
\* batch has returned
afterGeneration(L) ==
  IF Len(L.generationQueue) > 0 THEN processGenerationQueue(L)
  ELSE [L EXCEPT !.isProcessingQueue = FALSE]

\* generateVideoForSegment returns for segment i: with a video, or with null
\* after an error it caught
generateVideoForSegment(L, i, ok) ==
  LET L1 == IF ok THEN [L EXCEPT !.segments[i + 1].generated = TRUE]
            ELSE [L EXCEPT !.segments[i + 1].error = TRUE,
                           !.segments[i + 1].inQueue = FALSE]
      L2 == [L1 EXCEPT !.generating = @ \ {i}]
  IN IF L2.generating = {} THEN afterGeneration(L2) ELSE L2

LyricsStep(L) == lyrics' = L /\ UNCHANGED <<planVars, mixerVars, probeVars, account>>

\* initializeBuffer for a track with n segments
InitializeBuffer(n) ==
  /\ ~lyrics.buffered
  /\ LyricsStep(preGenerateSegments([lyrics EXCEPT !.buffered = TRUE,
                                                   !.segments = [k \in 1..n |-> FreshSegment],
                                                   !.currentSegment = 0],
                                    0))

\* getCurrentVideoSegment at a time in segment c: a change of the segment
\* index triggers the pre-generation of the segments ahead
GetCurrentVideoSegment(c) ==
  /\ lyrics.buffered
  /\ c < Len(lyrics.segments)
  /\ c # lyrics.currentSegment
  /\ LyricsStep(preGenerateSegments([lyrics EXCEPT !.currentSegment = c], c))

FinishGeneration(i, ok) ==
  /\ i \in lyrics.generating
  /\ LyricsStep(generateVideoForSegment(lyrics, i, ok))

LyricsInit ==
  /\ probe = NoProbe
  /\ verdict = "none"
  /\ rated = NoTempo
  /\ input = <<>>
  /\ order = <<>>
  /\ mix = NoMix
  /\ mTracks = <<>>
  /\ mTransitions = <<>>
  /\ broken = {}
  /\ ops = 0
  /\ InitFields(0)
  /\ account = NoAccount
  /\ lyrics = NoLyrics

LyricsNext ==
  \/ \E n \in 0..MaxSegments : InitializeBuffer(n)
  \/ \E c \in 0..(MaxSegments - 1) : GetCurrentVideoSegment(c)
  \/ \E i \in 0..(MaxSegments - 1), ok \in BOOLEAN : FinishGeneration(i, ok)

\* a call of generateVideoForSegment returns
LyricsFairness ==
  \A i \in 0..(MaxSegments - 1) : WF_vars(\E ok \in BOOLEAN : FinishGeneration(i, ok))

LyricsSpec == LyricsInit /\ [][LyricsNext]_vars /\ LyricsFairness

(***************************************************************************)
(* Properties of the generation queue, checked under LyricsSpec.           *)
(***************************************************************************)
Queued(i) == \E k \in 1..Len(lyrics.generationQueue) : lyrics.generationQueue[k] = i

\* C40: every segment that is put on generationQueue is eventually passed
\* to generateVideoForSegment, whatever the number of segments queued.
C40_QueueDrains ==
  \A i \in 0..(MaxSegments - 1) : Queued(i) ~> (i \in lyrics.generating)

====
